---- MODULE Spec2Model ----
(***************************************************************************)
(* Verification model of the Toggl sync client, cache store and sync       *)
(* orchestrator (src/src/toggl_client.py, src/src/data_store.py,           *)
(* src/src/sync.py).                                                       *)
(*                                                                         *)
(* Time is counted in whole seconds.  The wall clock is taken to be        *)
(* monotone and time.sleep(d) to return no earlier than d seconds later.   *)
(***************************************************************************)
EXTENDS Integers, Sequences, FiniteSets, TLC

VARIABLES
    \* ---- RateLimiter (toggl_client.py:48-77) and the wall clock
    clock,          \* time.time()
    last_request,   \* RateLimiter._last_request
    timestamps,     \* RateLimiter._timestamps
    lpc,            \* position inside wait_if_needed
    now,            \* local `now` of wait_if_needed
    one_hour_ago,   \* local `one_hour_ago` of wait_if_needed
    recorded,       \* history: every request time ever recorded, in order
    blocked,        \* history: for each recorded request, whether the call took the hourly wait
    \* ---- one call of TogglClient._request (toggl_client.py:103-128)
    rpc,            \* position inside _request
    retries,        \* parameter `retries`
    attempt,        \* loop variable `attempt`
    resp,           \* the response of the current attempt
    responses,      \* history: every response received, in order
    sleeps,         \* history: every time.sleep of _request itself, as <<attempt, seconds>>
    outcome,        \* "running", "returned", or the exception raised
    \* ---- the cache (data_store.py) and one sync at a time (sync.py)
    time_entries,   \* table time_entries: a set of rows, id being the primary key
    projects,       \* table projects
    tags,           \* table tags
    sync_meta,      \* table sync_meta
    spc,            \* position inside sync_all / sync_current_year, "idle" between calls
    years,          \* sync_all: local `years`
    yi,             \* sync_all: loop index `i`
    entries,        \* the entries fetched and not yet stored
    errors,         \* sync_all: local `errors`
    total_entries,  \* sync_all: local `total_entries`
    mode,           \* which sync is running: "all" or "current"
    earliest_year,  \* sync_all: parameter `earliest_year`
    project_list,   \* local `projects`: the project list fetched in this run
    tag_list,       \* local `tags`: the tag list fetched in this run
    sync_result,    \* how the last sync call ended, and what it returned
    runs,           \* number of sync calls started so far
    status,         \* what get_sync_status last returned
    chat,           \* what answer_question last read
    fetch_log,      \* history: this run's fetch_year_entries calls, <<year, succeeded>>
    upsert_log,     \* history: this run's upsert_time_entries calls, by year
    events,         \* history: this run's fetches and upserts in order, as <<what, year>>
    run_exports,    \* history: the export each year's fetch of this run returned
    prev_exports,   \* history: run_exports of the previous completed run
    prev_table,     \* history: time_entries at the end of the previous completed run
    \* ---- the progress callback of a sync (sync.py:42-45, 122-125)
    progress,       \* the fractions passed to progress_callback by the sync call, in order
    \* ---- the writing connection of upsert_time_entries (data_store.py:135-142)
    txn,            \* the open transaction of the writer: time_entries as it has it
    todo,           \* the entries of the batch that executemany has not written yet
    seen,           \* what a reader on another connection last read
    batch_base,     \* history: time_entries when the latest batch began
    batch_entries,  \* history: the entries of the latest batch
    \* ---- one call of answer_question (queries.py:55-189)
    question,       \* the words of `q`, the lower-cased and stripped question
    known_projects, \* local `known_projects`, in list order
    known_tags,     \* local `known_tags`, in list order
    route,          \* the handler that answered, with its arguments, or the exception
    \* ---- one call of _fuzzy_match_project / _fuzzy_match_tag (queries.py:30-52)
    fuzzy_fn,       \* which of the two was called, "none" before the call
    fuzzy_name,     \* argument `name`
    fuzzy_known,    \* argument `known_projects` / `known_tags`
    fuzzy_result,   \* the returned name, NullText for None
    \* ---- passes of fetch_year_entries over one export (toggl_client.py:340-389)
    csv_rows,       \* the rows of the export, the same on every pass
    pass_ids,       \* the ids of the rows parsed so far in the current pass
    passes,         \* history: the ids of every finished pass
    \* ---- one call of TogglClient.fetch_year_csv (toggl_client.py:391-395)
    fy_year,        \* argument `year`
    fy_today,       \* date.today(), as <<year, month, day>>
    fy_args,        \* the arguments given to export_detailed_csv, NoRange before the call
    fy_body,        \* the body export_detailed_csv posts, NoRange before the post
    \* ---- calls of upsert_time_entries on one cache (data_store.py:88-142)
    up_before,      \* history: table time_entries before the latest call
    up_entries,     \* argument `entries` of the latest call
    up_after,       \* table time_entries now
    up_calls,       \* calls made
    \* ---- the enrichment step of a sync (sync.py:59, 76-86, 134, 139-148)
    en_projects,    \* local `projects`, the list fetched in this run
    en_entries,     \* local `entries` as the client returned them
    en_stored,      \* table time_entries after the step
    en_mode,        \* which sync ran the step, "none" before it
    \* ---- one call of _answer_month on a cache (queries.py:269-297)
    mo_table,       \* table time_entries
    mo_month,       \* argument `month`
    mo_year,        \* argument `year`, 0 for None
    mo_df,          \* the rows of `df`
    mo_asked,       \* whether the call was made
    \* ---- syncs started from the sidebar, each on its own client (app.py:55-88)
    cl_left,        \* requests the running sync has still to make
    cl_syncs,       \* syncs started so far
    \* ---- the home page and its cold-start auto-sync (app.py:97-138)
    pg,             \* the page script: "load", "auto" (inside `if token:`), "syncing", "shown", "stopped"
    pg_token,       \* whether TOGGL_API_TOKEN is configured
    pg_returns,     \* history: auto-syncs that returned normally
    \* ---- two sync_all calls writing the one cache file (sync.py:24-107)
    tw_remote,      \* what the vendor returns to both: projects, tags, the export of each year
    tw_start,       \* the cache before either sync
    tw_cache,       \* the cache now: time_entries, projects, tags
    tw_done,        \* per writer, the batches it has committed; -1 once it raised
    tw_mixed        \* history: a batch was committed while the other writer was mid-sync

limVars == <<clock, last_request, timestamps, lpc, now, one_hour_ago, recorded, blocked>>
reqVars == <<rpc, retries, attempt, resp, responses, sleeps, outcome>>

dbVars == <<time_entries, projects, tags, sync_meta>>
runVars == <<spc, years, yi, entries, errors, total_entries, mode, earliest_year,
            project_list, tag_list, sync_result, runs>>
uiVars == <<status, chat>>
histVars == <<fetch_log, upsert_log, events, run_exports, prev_exports, prev_table>>
progVars == <<progress>>
txnVars == <<txn, todo, seen, batch_base, batch_entries>>
routeVars == <<question, known_projects, known_tags, route>>
fuzzyVars == <<fuzzy_fn, fuzzy_name, fuzzy_known, fuzzy_result>>
idVars == <<csv_rows, pass_ids, passes>>
rangeVars == <<fy_year, fy_today, fy_args, fy_body>>
upVars == <<up_before, up_entries, up_after, up_calls>>
enVars == <<en_projects, en_entries, en_stored, en_mode>>
moVars == <<mo_table, mo_month, mo_year, mo_df, mo_asked>>
clVars == <<cl_left, cl_syncs>>
pgVars == <<pg, pg_token, pg_returns>>
twVars == <<tw_remote, tw_start, tw_cache, tw_done, tw_mixed>>
lateVars == <<enVars, moVars, clVars, pgVars, twVars>>
extVars == <<rangeVars, upVars, lateVars>>
auxVars == <<progVars, txnVars, routeVars, fuzzyVars, idVars, extVars>>
syncVars == <<dbVars, runVars, uiVars, histVars>>

vars == <<limVars, reqVars, syncVars, auxVars>>

\* ------------------------------------------------------------------ bounds
MaxPerHour == 2      \* RateLimiter(max_per_hour=...) of the limiter under check
MinInterval == 2     \* RateLimiter(min_interval=...) of the limiter under check, seconds
MaxCalls == 4        \* wait_if_needed calls in one run
StartClock == 10000  \* wall clock when the limiter is constructed
MaxRetries == 3      \* largest `retries` argument of a _request call
MaxSyncs == 2        \* sync calls in one run of the program
MaxYears == 23       \* longest range of years given to sync_all
MaxPhrases == 3      \* phrases in one question
MaxNameLen == 3      \* characters in a project name and in a query
MaxKnown == 2        \* known names given to _fuzzy_match_project
MaxPasses == 2       \* fetch passes over the same export
MaxUpserts == 2      \* calls of upsert_time_entries on one cache
MaxClientSyncs == 2  \* syncs started from the sidebar in one process
MaxAutoReturns == 1  \* auto-syncs followed to their return; the next is followed to its start
CurrentYear == 2024  \* date.today().year

\* -------------------------------------------------------- program constants
Window == 3600       \* the rolling hour of wait_if_needed
Margin == 1          \* the safety margin added to the hourly wait
DefaultRetries == 3  \* def _request(..., retries: int = 3, ...)
DefaultRetryAfter == 5     \* resp.headers.get("Retry-After", 5)
DefaultQuotaReset == 120   \* wait = int(resets_in) if resets_in != "?" else 120

\* ------------------------------------------------------------ pure helpers
RECURSIVE SelectSeqGT(_, _)
\* [t for t in ts if t > bound]
SelectSeqGT(ts, bound) ==
    IF ts = <<>> THEN <<>>
    ELSE IF Head(ts) > bound
         THEN <<Head(ts)>> \o SelectSeqGT(Tail(ts), bound)
         ELSE SelectSeqGT(Tail(ts), bound)

\* ------------------------------------------------------------ RateLimiter
\* How late time.sleep may return, and how long the caller may pause between calls.
Overshoot == {0, 1}
Deltas == {0, 1, Window - MinInterval - 1, Window - MinInterval, Window}

\* Mutant: the interval sleep is one second short.
IntervalSleepShort(elapsed) == MinInterval - elapsed - 1

\* time.sleep(self.min_interval - elapsed)
IntervalSleep(elapsed) == MinInterval - elapsed

\* wait_time = self._timestamps[0] - one_hour_ago + 1
HourlyWait(ts, hourAgo) == ts[1] - hourAgo + Margin

\* self._timestamps = [t for t in self._timestamps if t > one_hour_ago]
PruneWindow(ts, hourAgo) == SelectSeqGT(ts, hourAgo)

\* Mutant: the quota test is off by one (> for >=).
QuotaReachedOffByOne(ts) == Len(ts) > MaxPerHour

\* len(self._timestamps) >= self.max_per_hour
QuotaReached(ts) == Len(ts) >= MaxPerHour

LimiterInit ==
    /\ clock = StartClock
    /\ last_request = 0
    /\ timestamps = <<>>
    /\ lpc = "idle"
    /\ now = 0
    /\ one_hour_ago = 0
    /\ recorded = <<>>
    /\ blocked = <<>>

\* lines 59-63, entered d seconds after the caller's previous step:
\* now = time.time(); elapsed = now - self._last_request
WaitBegin(d) ==
    /\ lpc = "idle"
    /\ clock' = clock + d
    /\ now' = clock + d
    /\ lpc' = IF (clock + d) - last_request < MinInterval THEN "sleep_interval" ELSE "prune"
    /\ UNCHANGED <<last_request, timestamps, one_hour_ago, recorded, blocked>>

\* line 64: time.sleep(self.min_interval - elapsed)
SleepInterval ==
    /\ lpc = "sleep_interval"
    /\ \E o \in Overshoot : clock' = clock + IntervalSleep(now - last_request) + o
    /\ lpc' = "prune"
    /\ UNCHANGED <<last_request, timestamps, now, one_hour_ago, recorded, blocked>>

\* lines 67-70: one_hour_ago = time.time() - 3600; prune; test the quota
Prune ==
    /\ lpc = "prune"
    /\ one_hour_ago' = clock - Window
    /\ timestamps' = PruneWindow(timestamps, clock - Window)
    /\ lpc' = IF QuotaReached(timestamps') THEN "sleep_hourly" ELSE "record"
    /\ blocked' = Append(blocked, QuotaReached(timestamps'))
    /\ UNCHANGED <<clock, last_request, now, recorded>>

\* lines 72-74: time.sleep(wait_time)
SleepHourly ==
    /\ lpc = "sleep_hourly"
    /\ \E o \in Overshoot : clock' = clock + HourlyWait(timestamps, one_hour_ago) + o
    /\ lpc' = "record"
    /\ UNCHANGED <<last_request, timestamps, now, one_hour_ago, recorded, blocked>>

\* lines 76-77: self._last_request = time.time(); self._timestamps.append(...)
Record ==
    /\ lpc = "record"
    /\ last_request' = clock
    /\ timestamps' = Append(timestamps, clock)
    /\ recorded' = Append(recorded, clock)
    /\ lpc' = "idle"
    /\ UNCHANGED <<clock, now, one_hour_ago, blocked>>

\* A caller that does nothing but call wait_if_needed, pausing in between.
LimiterCall ==
    /\ Len(recorded) < MaxCalls
    /\ \E d \in Deltas : WaitBegin(d)

LimiterNext ==
    \/ LimiterCall /\ UNCHANGED <<reqVars, syncVars, auxVars>>
    \/ SleepInterval /\ UNCHANGED <<reqVars, syncVars, auxVars>>
    \/ Prune /\ UNCHANGED <<reqVars, syncVars, auxVars>>
    \/ SleepHourly /\ UNCHANGED <<reqVars, syncVars, auxVars>>
    \/ Record /\ UNCHANGED <<reqVars, syncVars, auxVars>>

\* ------------------------------------------------------- RateLimiter claims
\* Requests recorded in the rolling hour that ends at the i-th recorded request:
\* the half-open window (recorded[i] - 3600, recorded[i]] the code itself uses.
InWindowOf(i) == {j \in 1..i : recorded[j] > recorded[i] - Window}

\* C1: every two consecutively recorded request times are at least min_interval
\* apart, so the first N recorded requests span at least (N-1) * min_interval.
C1_MinSpacing ==
    /\ \A i \in 2..Len(recorded) : recorded[i] - recorded[i-1] >= MinInterval
    /\ \A n \in 1..Len(recorded) : recorded[n] - recorded[1] >= (n - 1) * MinInterval

\* A run with MaxCalls recorded requests in which the interval sleep decided
\* the spacing (two requests exactly min_interval apart).
C1_Witness ==
    /\ Len(recorded) = MaxCalls
    /\ \E i \in 2..Len(recorded) : recorded[i] - recorded[i-1] = MinInterval

\* C2: a call that finds max_per_hour requests in the last 3600 seconds records
\* its request only after the oldest of them has left the window, and no rolling
\* hour (t - 3600, t] ever holds more than max_per_hour recorded requests.
C2_HourlyQuota ==
    /\ \A i \in 1..Len(recorded) : Cardinality(InWindowOf(i)) <= MaxPerHour
    /\ (lpc = "record" /\ blocked[Len(blocked)]) => timestamps[1] <= clock - Window
    /\ \A i \in 1..Len(recorded) :
          blocked[i] => (i > MaxPerHour /\ recorded[i] - recorded[i - MaxPerHour] > Window)

\* A call that took the hourly wait has recorded its request, and the rolling
\* hour ending at it is full.
C2_Witness ==
    /\ lpc = "idle"
    /\ Len(recorded) > MaxPerHour
    /\ blocked[Len(recorded)]
    /\ Cardinality(InWindowOf(Len(recorded))) = MaxPerHour

\* ---------------------------------------------------- TogglClient._request
\* What the remote can answer.  A header is NoHeader when absent, else its
\* integer value in seconds.
NoHeader == -1
Statuses == {200, 204, 400, 402, 404, 429, 500}
HeaderValues == {NoHeader, 1, 7}
NoResponse == [status |-> 0, header |-> NoHeader]

\* Mutant: the Retry-After header is ignored.
RetryAfterIgnored(h) == DefaultRetryAfter

\* wait = int(resp.headers.get("Retry-After", 5))
RetryAfterWait(h) == IF h = NoHeader THEN DefaultRetryAfter ELSE h

\* wait = int(resets_in) if resets_in != "?" else 120
QuotaResetWait(h) == IF h = NoHeader THEN DefaultQuotaReset ELSE h

\* Mutant: a quota answer is retried once only.
MayRetryQuotaOnce(a, r) == a < 1 /\ a < r - 1

\* if attempt < retries - 1
MayRetryQuota(a, r) == a < r - 1

\* Mutant: only server errors raise.
RaisesForServerError(st) == st >= 500 /\ st < 600

\* requests.Response.raise_for_status raises for 4xx and 5xx
RaisesForStatus(st) == st >= 400 /\ st < 600

RequestInit ==
    /\ rpc = "loop"
    /\ retries \in (1..MaxRetries) \cup {DefaultRetries}
    /\ attempt = 0
    /\ resp = NoResponse
    /\ responses = <<>>
    /\ sleeps = <<>>
    /\ outcome = "running"

\* Mutant: one attempt more than `retries`.
AttemptInRangeInclusive(a, n) == a <= n

\* line 105: attempt in range(retries)
AttemptInRange(a, n) == a < n

\* line 105: for attempt in range(retries); line 128 when the range is used up
ReqLoop ==
    /\ rpc = "loop"
    /\ IF AttemptInRange(attempt, retries)
       THEN rpc' = "acquire" /\ outcome' = outcome
       ELSE rpc' = "done" /\ outcome' = "RuntimeError"
    /\ UNCHANGED <<syncVars, auxVars, limVars, retries, attempt, resp, responses, sleeps>>

\* line 106: self._limiter.wait_if_needed()
\* (the call is entered while no request is recorded yet for this attempt, and
\* has returned once one is)
ReqAcquire == rpc = "acquire" /\ Len(recorded) = Len(responses)
ReqAcquired == rpc = "acquire" /\ Len(recorded) = Len(responses) + 1 /\ lpc = "idle"

\* line 107: resp = self._session.request(method, url, **kwargs)
ReqSend ==
    /\ ReqAcquired
    /\ \E st \in Statuses, h \in HeaderValues :
        /\ (st \notin {429, 402}) => h = NoHeader
        /\ resp' = [status |-> st, header |-> h]
        /\ responses' = Append(responses, [status |-> st, header |-> h])
    /\ rpc' = "dispatch"
    /\ UNCHANGED <<syncVars, auxVars, limVars, retries, attempt, sleeps, outcome>>

\* line 107, the transport failing: requests raises (ConnectionError, Timeout)
ReqSendFails ==
    /\ ReqAcquired
    /\ rpc' = "done"
    /\ outcome' = "ConnectionError"
    /\ UNCHANGED <<syncVars, auxVars, limVars, retries, attempt, resp, responses, sleeps>>

\* lines 109-113: 429, sleep for Retry-After and continue
ReqThrottled ==
    /\ rpc = "dispatch"
    /\ resp.status = 429
    /\ \E o \in Overshoot : clock' = clock + RetryAfterWait(resp.header) + o
    /\ sleeps' = Append(sleeps, <<attempt, RetryAfterWait(resp.header)>>)
    /\ attempt' = attempt + 1
    /\ rpc' = "loop"
    /\ UNCHANGED <<syncVars, auxVars, last_request, timestamps, lpc, now, one_hour_ago, recorded, blocked,
                   retries, resp, responses, outcome>>

\* lines 115-123: 402 with attempts left, sleep for the reset window and continue
ReqQuotaRetry ==
    /\ rpc = "dispatch"
    /\ resp.status = 402
    /\ MayRetryQuota(attempt, retries)
    /\ \E o \in Overshoot : clock' = clock + QuotaResetWait(resp.header) + o
    /\ sleeps' = Append(sleeps, <<attempt, QuotaResetWait(resp.header)>>)
    /\ attempt' = attempt + 1
    /\ rpc' = "loop"
    /\ UNCHANGED <<syncVars, auxVars, last_request, timestamps, lpc, now, one_hour_ago, recorded, blocked,
                   retries, resp, responses, outcome>>

\* lines 125-126: resp.raise_for_status(); return resp
\* (reached by every status but 429, and by 402 when no attempt is left)
ReqFinish ==
    /\ rpc = "dispatch"
    /\ resp.status # 429
    /\ resp.status = 402 => ~MayRetryQuota(attempt, retries)
    /\ outcome' = IF RaisesForStatus(resp.status) THEN "HTTPError" ELSE "returned"
    /\ rpc' = "done"
    /\ UNCHANGED <<syncVars, auxVars, limVars, retries, attempt, resp, responses, sleeps>>

RequestNext ==
    \/ ReqLoop
    \/ ReqAcquire /\ WaitBegin(0) /\ UNCHANGED <<reqVars, syncVars, auxVars>>
    \/ rpc = "acquire" /\ SleepInterval /\ UNCHANGED <<reqVars, syncVars, auxVars>>
    \/ rpc = "acquire" /\ Prune /\ UNCHANGED <<reqVars, syncVars, auxVars>>
    \/ rpc = "acquire" /\ SleepHourly /\ UNCHANGED <<reqVars, syncVars, auxVars>>
    \/ rpc = "acquire" /\ Record /\ UNCHANGED <<reqVars, syncVars, auxVars>>
    \/ ReqSend
    \/ ReqSendFails
    \/ ReqThrottled
    \/ ReqQuotaRetry
    \/ ReqFinish

\* ------------------------------------------------------- _request claims
\* The i-th response has been acted upon (the branch on its status was taken).
Dispatched(i) == i < Len(responses) \/ rpc # "dispatch"
\* _request slept s seconds in the attempt that received the i-th response.
SleptAfter(i, s) == \E k \in 1..Len(sleeps) : sleeps[k] = <<i - 1, s>>
SleptAtAll(i) == \E k \in 1..Len(sleeps) : sleeps[k][1] = i - 1
\* The call ended because the transport failed, not because of an answer.
TransportFailed == outcome = "ConnectionError"

\* C3: a 429 answer makes the call sleep for the Retry-After value (5 seconds
\* when the header is absent) and go on to the next attempt; a call answered 429
\* on every attempt makes exactly `retries` attempts and then raises RuntimeError.
C3_ThrottleRetry ==
    /\ \A i \in 1..Len(responses) :
          (responses[i].status = 429 /\ Dispatched(i)) =>
             /\ SleptAfter(i, IF responses[i].header = NoHeader THEN 5 ELSE responses[i].header)
             /\ Len(sleeps) >= i
             /\ (rpc = "done" /\ ~TransportFailed /\ i < retries) => Len(responses) > i
    /\ (rpc = "done" /\ ~TransportFailed /\ \A i \in 1..Len(responses) : responses[i].status = 429)
          => (Len(responses) = retries /\ Len(recorded) = retries /\ outcome = "RuntimeError")

\* A call with the default `retries` that was answered 429 every time, once
\* with a Retry-After header and once without, has ended.
C3_Witness ==
    /\ rpc = "done" /\ retries = DefaultRetries /\ outcome = "RuntimeError"
    /\ Len(responses) = DefaultRetries
    /\ \A i \in 1..Len(responses) : responses[i].status = 429
    /\ \E i, j \in 1..Len(responses) : responses[i].header = NoHeader /\ responses[j].header = 7

ErrorStatus(st) == st \in 400..599

\* C5: an attempt answered with an error status other than 429 and 402 ends the
\* call at once with HTTPError: no sleep in that attempt, no further attempt,
\* no response returned.
C5_OtherErrorFatal ==
    \A i \in 1..Len(responses) :
       (ErrorStatus(responses[i].status) /\ responses[i].status \notin {429, 402}) =>
          /\ i = Len(responses)
          /\ Len(recorded) = i
          /\ ~SleptAtAll(i)
          /\ rpc \in {"dispatch", "done"}
          /\ outcome # "returned"
          /\ rpc = "done" => outcome = "HTTPError"

\* A call has ended on a 404 answer to its second attempt.
C5_Witness ==
    /\ rpc = "done" /\ outcome = "HTTPError"
    /\ Len(responses) = 2 /\ responses[2].status = 404 /\ retries > 2

\* ------------------------------------------------------------------ text
\* A text is a sequence of character codes (ASCII), so that slicing, splitting,
\* parsing and the byte-wise comparison of SQLite's TEXT columns are computed.
Digit(n) == 48 + n
Dash == 45
Colon == 58
Comma == 44
Space == 32
Quote == 34
Bar == 124
NullText == <<-1>>      \* SQL NULL / Python None in a text column
NullInt == -1           \* SQL NULL / Python None in an integer column

IsDigit(c) == c >= 48 /\ c <= 57
Fmt2(n) == <<Digit(n \div 10), Digit(n % 10)>>
Fmt4(n) == <<Digit(n \div 1000), Digit((n \div 100) % 10), Digit((n \div 10) % 10), Digit(n % 10)>>
RECURSIVE FmtInt(_)
\* str(n) for n >= 0
FmtInt(n) == IF n < 10 THEN <<Digit(n)>> ELSE FmtInt(n \div 10) \o <<Digit(n % 10)>>

\* s[i:j] of Python (0-based, end exclusive, clipped to the text)
Slice(s, i, j) ==
    LET hi == IF j < Len(s) THEN j ELSE Len(s)
    IN  IF i >= hi THEN <<>> ELSE SubSeq(s, i + 1, hi)

\* All characters are decimal digits and there is at least one.
AllDigits(s) == Len(s) > 0 /\ \A k \in 1..Len(s) : IsDigit(s[k])
RECURSIVE DigitsValue(_)
DigitsValue(s) == IF s = <<>> THEN 0 ELSE DigitsValue(SubSeq(s, 1, Len(s) - 1)) * 10 + (s[Len(s)] - 48)
\* int(s) succeeds (an optional sign, then digits)
IsIntText(s) ==
    \/ AllDigits(s)
    \/ Len(s) > 1 /\ s[1] \in {Dash, 43} /\ AllDigits(Tail(s))
\* int(s)
IntOf(s) ==
    IF AllDigits(s) THEN DigitsValue(s)
    ELSE IF s[1] = Dash THEN 0 - DigitsValue(Tail(s)) ELSE DigitsValue(Tail(s))

RECURSIVE SplitOn(_, _)
\* s.split(sep) for a one-character separator
SplitOn(s, sep) ==
    IF \A k \in 1..Len(s) : s[k] # sep THEN <<s>>
    ELSE LET k == CHOOSE k \in 1..Len(s) : s[k] = sep /\ \A j \in 1..(k - 1) : s[j] # sep
         IN  <<SubSeq(s, 1, k - 1)>> \o SplitOn(SubSeq(s, k + 1, Len(s)), sep)

RECURSIVE Strip(_)
\* s.strip() (blanks only)
Strip(s) ==
    IF s = <<>> THEN s
    ELSE IF s[1] = Space THEN Strip(Tail(s))
    ELSE IF s[Len(s)] = Space THEN Strip(SubSeq(s, 1, Len(s) - 1))
    ELSE s

RECURSIVE FirstDiff(_, _, _)
\* The first position from k on where the two texts differ, 0 when one text
\* ends before any difference.
FirstDiff(s, t, k) ==
    IF k > Len(s) \/ k > Len(t) THEN 0
    ELSE IF s[k] # t[k] THEN k ELSE FirstDiff(s, t, k + 1)

\* Byte-wise order of two texts (memcmp, then length), as SQLite compares TEXT.
TextLess(s, t) ==
    LET k == FirstDiff(s, t, 1)
    IN  IF k = 0 THEN Len(s) < Len(t) ELSE s[k] < t[k]
TextLeq(s, t) == s = t \/ TextLess(s, t)

\* ASCII lower case
LowerChar(c) == IF c >= 65 /\ c <= 90 THEN c + 32 ELSE c
Lower(s) == [k \in 1..Len(s) |-> LowerChar(s[k])]
\* needle in hay
Contains(hay, needle) ==
    \E k \in 0..(Len(hay) - Len(needle)) : SubSeq(hay, k + 1, k + Len(needle)) = needle
\* hay LIKE '%needle%' of SQLite: case-insensitive for ASCII; NULL matches nothing
Like(hay, needle) == hay # NullText /\ Contains(Lower(hay), Lower(needle))

RECURSIVE JoinTexts(_, _)
\* sep.join(list)
JoinTexts(list, sep) ==
    IF list = <<>> THEN <<>>
    ELSE IF Len(list) = 1 THEN list[1]
    ELSE list[1] \o sep \o JoinTexts(Tail(list), sep)
\* json.dumps of a list of plain texts: ["x", "y"]
JsonDumps(list) ==
    <<91>> \o JoinTexts([k \in 1..Len(list) |-> <<Quote>> \o list[k] \o <<Quote>>], <<Comma, Space>>) \o <<93>>

\* ------------------------------------------------------------ calendar
IsLeap(y) == (y % 4 = 0 /\ y % 100 # 0) \/ y % 400 = 0
DaysInMonth(y, m) ==
    IF m = 2 THEN (IF IsLeap(y) THEN 29 ELSE 28)
    ELSE IF m \in {4, 6, 9, 11} THEN 30 ELSE 31
RECURSIVE DaysBeforeMonth(_, _)
DaysBeforeMonth(y, m) == IF m = 1 THEN 0 ELSE DaysBeforeMonth(y, m - 1) + DaysInMonth(y, m - 1)
\* date.toordinal(): days since 0001-01-01, that day being 1
Ordinal(y, m, d) ==
    LET p == y - 1
    IN  p * 365 + p \div 4 - p \div 100 + p \div 400 + DaysBeforeMonth(y, m) + d
\* date.isoweekday(): Monday 1 .. Sunday 7
IsoWeekday(y, m, d) == ((Ordinal(y, m, d) + 6) % 7) + 1
\* Ordinal of the Monday that starts ISO week 1 of year y
IsoWeek1Monday(y) ==
    LET first == Ordinal(y, 1, 1)
        wd    == (first + 6) % 7          \* Monday 0 .. Sunday 6
        mon   == first - wd
    IN  IF wd > 3 THEN mon + 7 ELSE mon
\* date.isocalendar()[1]
IsoWeek(y, m, d) ==
    LET today == Ordinal(y, m, d)
        week  == (today - IsoWeek1Monday(y)) \div 7
    IN  IF today < IsoWeek1Monday(y)
        THEN (today - IsoWeek1Monday(y - 1)) \div 7 + 1
        ELSE IF week >= 52 /\ today >= IsoWeek1Monday(y + 1) THEN 1
        ELSE week + 1

\* ------------------------------------------- fetch_year_entries (CSV parse)
\* The 60-bit prefix of the SHA-256 digest is modelled by a polynomial digest
\* of the seed text, reduced modulo DigestModulus.
DigestModulus == 1000003
RECURSIVE Digest(_)
Digest(seed) ==
    IF seed = <<>> THEN 7
    ELSE (Digest(SubSeq(seed, 1, Len(seed) - 1)) * 131 + seed[Len(seed)]) % DigestModulus

\* lines 344-350: "H:MM:SS" to seconds, 0 when int() or the indexing fails
ParseDuration(dur) ==
    LET parts == SplitOn(dur, Colon)
    IN  IF Len(parts) >= 3 /\ IsIntText(Strip(parts[1])) /\ IsIntText(Strip(parts[2]))
           /\ IsIntText(Strip(parts[3]))
        THEN IntOf(Strip(parts[1])) * 3600 + IntOf(Strip(parts[2])) * 60 + IntOf(Strip(parts[3]))
        ELSE 0

\* lines 353-359: f"{date}T{time}" if date else ""
JoinStamp(d, t) == IF d # <<>> THEN d \o <<84>> \o t ELSE <<>>

\* lines 362-363: [t.strip() for t in tags_str.split(",") if t.strip()] if tags_str else []
ParseTags(tags_str) ==
    IF tags_str = <<>> THEN <<>>
    ELSE LET parts == SplitOn(tags_str, Comma)
         IN  SelectSeq([k \in 1..Len(parts) |-> Strip(parts[k])], LAMBDA t : t # <<>>)

\* line 370: f"{start_iso}|{stop_iso}|{description}|{project}|{duration_sec}"
IdSeed(start_iso, stop_iso, description, project, duration_sec) ==
    start_iso \o <<Bar>> \o stop_iso \o <<Bar>> \o description \o <<Bar>> \o project \o <<Bar>>
      \o (IF duration_sec < 0 THEN <<Dash>> \o FmtInt(0 - duration_sec) ELSE FmtInt(duration_sec))

\* Mutant: the digest is salted per sync run (as the built-in hash() is per process).
SynthIdSalted(seed) == Digest(seed \o <<Bar>> \o FmtInt(runs))

\* line 371: int(hashlib.sha256(id_seed.encode()).hexdigest()[:15], 16)
SynthId(seed) == Digest(seed)

\* lines 342-386: one CSV row to one flat entry
ParseRow(row) ==
    LET duration_sec == ParseDuration(row.duration)
        start_iso    == JoinStamp(row.start_date, row.start_time)
        stop_iso     == JoinStamp(row.end_date, row.end_time)
    IN  [id           |-> SynthId(IdSeed(start_iso, stop_iso, row.description, row.project, duration_sec)),
         description  |-> row.description,
         start        |-> start_iso,
         stop         |-> stop_iso,
         duration     |-> duration_sec,
         project_id   |-> NullInt,
         project_name |-> row.project,
         workspace_id |-> NullInt,
         tags         |-> ParseTags(row.tags),
         tag_ids      |-> <<>>,
         billable     |-> row.billable = <<89, 101, 115>>,
         at           |-> <<>>]

\* lines 340-389: the entries of an export, in row order
ParseCsv(rows) == [k \in 1..Len(rows) |-> ParseRow(rows[k])]

\* ------------------------------------------------- upsert_time_entries
\* The part of an ISO timestamp that holds the local date and time, after
\* start_str.replace("Z", "+00:00"): <<>> when the shape is none of
\* YYYY-MM-DD, YYYY-MM-DDTHH:MM:SS, ...Z, ...+HH:MM.
IsoCore(s) ==
    IF Len(s) \in {10, 19} THEN s
    ELSE IF Len(s) = 20 /\ s[20] = 90 THEN SubSeq(s, 1, 19)
    ELSE IF Len(s) = 25 /\ s[20] \in {43, Dash} /\ s[23] = Colon
            /\ AllDigits(SubSeq(s, 21, 22)) /\ AllDigits(SubSeq(s, 24, 25))
         THEN SubSeq(s, 1, 19)
    ELSE <<>>

\* datetime.fromisoformat(...) succeeds
IsoParses(s) ==
    LET c == IsoCore(s)
    IN  /\ c # <<>>
        /\ AllDigits(SubSeq(c, 1, 4)) /\ c[5] = Dash
        /\ AllDigits(SubSeq(c, 6, 7)) /\ c[8] = Dash
        /\ AllDigits(SubSeq(c, 9, 10))
        /\ IntOf(SubSeq(c, 1, 4)) >= 1
        /\ IntOf(SubSeq(c, 6, 7)) \in 1..12
        /\ IntOf(SubSeq(c, 9, 10)) \in 1..DaysInMonth(IntOf(SubSeq(c, 1, 4)), IntOf(SubSeq(c, 6, 7)))
        /\ Len(c) = 19 =>
             /\ AllDigits(SubSeq(c, 12, 13)) /\ c[14] = Colon
             /\ AllDigits(SubSeq(c, 15, 16)) /\ c[17] = Colon
             /\ AllDigits(SubSeq(c, 18, 19))
             /\ IntOf(SubSeq(c, 12, 13)) < 24
             /\ IntOf(SubSeq(c, 15, 16)) < 60
             /\ IntOf(SubSeq(c, 18, 19)) < 60

\* lines 101-104 raise (int() of a slice that is not a number) in the except branch
FallbackRaises(s) ==
    /\ ~IsoParses(s)
    /\ \/ Len(s) >= 4 /\ ~IsIntText(Slice(s, 0, 4))
       \/ Len(s) >= 7 /\ ~IsIntText(Slice(s, 5, 7))
       \/ Len(s) >= 10 /\ ~IsIntText(Slice(s, 8, 10))

\* lines 92-105: the derived date columns of one entry
DerivedDate(s) ==
    IF IsoParses(s)
    THEN LET c == IsoCore(s)
             y == IntOf(SubSeq(c, 1, 4))
             m == IntOf(SubSeq(c, 6, 7))
             d == IntOf(SubSeq(c, 9, 10))
         IN  [start_date  |-> Fmt4(y) \o <<Dash>> \o Fmt2(m) \o <<Dash>> \o Fmt2(d),
              start_year  |-> y,
              start_month |-> m,
              start_day   |-> d,
              start_week  |-> IsoWeek(y, m, d)]
    ELSE [start_date  |-> IF Len(s) >= 10 THEN Slice(s, 0, 10) ELSE NullText,
          start_year  |-> IF Len(s) >= 4 THEN IntOf(Slice(s, 0, 4)) ELSE NullInt,
          start_month |-> IF Len(s) >= 7 THEN IntOf(Slice(s, 5, 7)) ELSE NullInt,
          start_day   |-> IF Len(s) >= 10 THEN IntOf(Slice(s, 8, 10)) ELSE NullInt,
          start_week  |-> NullInt]

\* line 109: max(duration_sec, 0) / 3600.0, kept in units of 1/3600 hour
DurationHours(duration_sec) == IF duration_sec > 0 THEN duration_sec ELSE 0

\* lines 91-133: the row written for one entry
EntryRow(e) ==
    LET dd == DerivedDate(e.start)
    IN  [id             |-> e.id,
         description    |-> e.description,
         start          |-> e.start,
         stop           |-> e.stop,
         duration       |-> e.duration,
         project_id     |-> e.project_id,
         project_name   |-> e.project_name,
         workspace_id   |-> e.workspace_id,
         tags           |-> JsonDumps(e.tags),
         tag_ids        |-> JsonDumps(e.tag_ids),
         billable       |-> IF e.billable THEN 1 ELSE 0,
         at             |-> e.at,
         start_date     |-> dd.start_date,
         start_year     |-> dd.start_year,
         start_month    |-> dd.start_month,
         start_day      |-> dd.start_day,
         start_week     |-> dd.start_week,
         duration_hours |-> DurationHours(e.duration)]

\* Mutant: the statement is INSERT OR IGNORE, an existing row is kept.
InsertOrIgnore(table, row) ==
    IF \E x \in table : x.id = row.id THEN table ELSE table \cup {row}

\* Mutant: the year's rows are rewritten from scratch (DELETE, then INSERT).
ReplaceAllRows(table, row) == {row}

RECURSIVE SumDurations(_)
SumDurations(rows) ==
    IF rows = {} THEN 0
    ELSE LET r == CHOOSE r \in rows : TRUE IN r.duration + SumDurations(rows \ {r})

\* Mutant: a row whose id is stored adds its duration to the stored one
\* (ON CONFLICT DO UPDATE SET duration = duration + excluded.duration).
InsertOrAccumulate(table, row) ==
    {x \in table : x.id # row.id}
        \cup {[row EXCEPT !.duration = row.duration + SumDurations({x \in table : x.id = row.id})]}

\* lines 135-141: INSERT OR REPLACE of one row; id is the PRIMARY KEY
InsertOrReplace(table, row) == {x \in table : x.id # row.id} \cup {row}

RECURSIVE UpsertRows(_, _)
UpsertRows(table, es) ==
    IF es = <<>> THEN table
    ELSE UpsertRows(InsertOrReplace(table, EntryRow(Head(es))), Tail(es))

\* lines 88-142: upsert_time_entries(conn, entries), committed as one batch
UpsertTimeEntries(table, es) == UpsertRows(table, es)

\* upsert_time_entries raises before anything is written
UpsertRaises(es) == \E k \in 1..Len(es) : FallbackRaises(es[k].start)

\* --------------------------------------------------- cache store reads
\* A result set is modelled as the set of its rows; ORDER BY is not modelled.
DefaultSearchLimit == 200

\* Mutant: the range is compared against the full start timestamp.
InDateRangeByStart(r, a, b) ==
    /\ (a # NullText /\ a # <<>>) => TextLeq(a, r.start)
    /\ (b # NullText /\ b # <<>>) => TextLeq(r.start, b)

\* lines 199-204: AND start_date >= ? AND start_date <= ?, each only when given
InDateRange(r, a, b) ==
    /\ (a # NullText /\ a # <<>>) => (r.start_date # NullText /\ TextLeq(a, r.start_date))
    /\ (b # NullText /\ b # <<>>) => (r.start_date # NullText /\ TextLeq(r.start_date, b))

\* lines 187-213: get_entries_df(conn, year, start_date, end_date)
GetEntriesDf(table, year, a, b) ==
    {r \in table :
        /\ r.duration > 0
        /\ (year # NullInt /\ year # 0) => r.start_year = year
        /\ InDateRange(r, a, b)}

\* lines 216-221: get_available_years(conn)
GetAvailableYears(table) == {r.start_year : r \in {x \in table : x.start_year # NullInt}}

\* lines 233-243: get_entries_for_date_across_years(conn, month, day)
GetEntriesForDateAcrossYears(table, month, day) ==
    {r \in table : r.start_month = month /\ r.start_day = day /\ r.duration > 0}

\* lines 246-256: get_entries_for_week_across_years(conn, week)
GetEntriesForWeekAcrossYears(table, week) ==
    {r \in table : r.start_week = week /\ r.duration > 0}

RECURSIVE SumHours(_)
SumHours(rows) ==
    IF rows = {} THEN 0
    ELSE LET r == CHOOSE r \in rows : TRUE IN r.duration_hours + SumHours(rows \ {r})

\* lines 259-272: get_total_stats(conn)
GetTotalStats(table) ==
    LET rows  == {r \in table : r.duration > 0}
        dates == {r.start_date : r \in {x \in rows : x.start_date # NullText}}
    IN  [total_entries   |-> Cardinality(rows),
         total_hours     |-> IF rows = {} THEN NullInt ELSE SumHours(rows),
         earliest_date   |-> IF dates = {} THEN NullText
                             ELSE CHOOSE d \in dates : \A e \in dates : TextLeq(d, e),
         latest_date     |-> IF dates = {} THEN NullText
                             ELSE CHOOSE d \in dates : \A e \in dates : TextLeq(e, d),
         unique_projects |-> Cardinality({r.project_name : r \in {x \in rows : x.project_name # <<>>}}),
         years_tracked   |-> Cardinality({r.start_year : r \in {x \in rows : x.start_year # NullInt}})]

\* ORDER BY start DESC LIMIT ?
TopByStart(rows, limit) ==
    IF Cardinality(rows) <= limit THEN rows
    ELSE CHOOSE top \in SUBSET rows :
            /\ Cardinality(top) = limit
            /\ \A x \in top, y \in rows \ top : TextLeq(y.start, x.start)

\* lines 275-288: search_entries(conn, keyword, limit)
SearchEntries(table, keyword, limit) ==
    TopByStart({r \in table :
                   /\ \/ Like(r.description, keyword)
                      \/ Like(r.project_name, keyword)
                      \/ Like(r.tags, keyword)
                   /\ r.duration > 0}, limit)

\* lines 291-305: get_entries_by_tag(conn, tag_name, year)
GetEntriesByTag(table, tag_name, year) ==
    {r \in table :
        /\ Like(r.tags, <<Quote>> \o tag_name \o <<Quote>>)
        /\ r.duration > 0
        /\ (year # NullInt /\ year # 0) => r.start_year = year}

\* lines 308-315: get_all_project_names(conn)
GetAllProjectNames(table) ==
    {r.project_name : r \in {x \in table : x.project_name # <<>> /\ x.project_name # NullText}}

\* ------------------------------------------------------------ the vendor
\* What the vendor's CSV export can hold.  A row is a record of the CSV's text
\* columns; an export of a year is any selection of that year's rows, in order.
DateText(y, m, d) == Fmt4(y) \o <<Dash>> \o Fmt2(m) \o <<Dash>> \o Fmt2(d)
TimeText(h, mi, sec) == Fmt2(h) \o <<Colon>> \o Fmt2(mi) \o <<Colon>> \o Fmt2(sec)
CsvRow(day, startTime, endTime, dur, desc, proj, tagText, bill) ==
    [start_date |-> day, start_time |-> startTime, end_date |-> day, end_time |-> endTime,
     duration |-> dur, description |-> desc, project |-> proj, tags |-> tagText, billable |-> bill]
Yes == <<89, 101, 115>>
No == <<78, 111>>

VendorRows(year) ==
    IF year = CurrentYear - 1 THEN
      << CsvRow(DateText(year, 12, 31), TimeText(23, 59, 59), TimeText(23, 59, 59),
                <<Digit(1), Colon, Digit(0), Digit(0), Colon, Digit(0), Digit(0)>>,
                <<97>>, <<80>>, <<120, Comma, Space, 121>>, Yes) >>
    ELSE IF year = CurrentYear THEN
      << CsvRow(DateText(year, 3, 1), TimeText(0, 0, 0), TimeText(0, 30, 0),
                <<Digit(0), Colon, Digit(3), Digit(0), Colon, Digit(0), Digit(0)>>,
                <<97>>, <<80>>, <<>>, No),
         \* the same five identifying fields as the row before, other tags
         CsvRow(DateText(year, 3, 1), TimeText(0, 0, 0), TimeText(0, 30, 0),
                <<Digit(0), Colon, Digit(3), Digit(0), Colon, Digit(0), Digit(0)>>,
                <<97>>, <<80>>, <<122>>, No),
         \* a running entry: the duration does not parse and defaults to 0
         CsvRow(DateText(year, 3, 15), TimeText(12, 0, 0), <<>>,
                <<>>, <<114>>, <<81>>, <<>>, No),
         CsvRow(DateText(year, 3, 31), TimeText(23, 59, 59), TimeText(23, 59, 59),
                <<Digit(2), Colon, Digit(0), Digit(0), Colon, Digit(0), Digit(0)>>,
                <<98>>, <<>>, <<120>>, Yes),
         CsvRow(DateText(year, 4, 1), TimeText(0, 0, 0), TimeText(1, 0, 0),
                <<Digit(1), Colon, Digit(0), Digit(0), Colon, Digit(0), Digit(0)>>,
                <<98>>, <<80>>, <<>>, No) >>
    ELSE <<>>

RECURSIVE SelectRows(_, _, _)
\* The rows of `rows` whose positions are in `keep`, from position k on.
SelectRows(rows, keep, k) ==
    IF k > Len(rows) THEN <<>>
    ELSE (IF k \in keep THEN <<rows[k]>> ELSE <<>>) \o SelectRows(rows, keep, k + 1)

\* The selections of a year's rows that the vendor may export.
ExportSelections(year) ==
    IF year = CurrentYear THEN {{}, {3}, {2, 4}, {1, 3, 4, 5}}
    ELSE {{}, 1..Len(VendorRows(year))}

Exports(year) == {SelectRows(VendorRows(year), keep, 1) : keep \in ExportSelections(year)}

ProjectLists ==
    {<<>>, <<[id |-> 1, name |-> <<80>>, workspace_id |-> 9, color |-> <<>>, active |-> TRUE, at |-> <<>>]>>}
TagLists == {<<[id |-> 1, name |-> <<120>>, workspace_id |-> 9]>>}

\* ---------------------------------------------------- projects, tags, meta
\* lines 145-156: upsert_projects
UpsertProjects(table, list) ==
    LET rows == {[id |-> list[k].id, name |-> list[k].name, workspace_id |-> list[k].workspace_id,
                  color |-> list[k].color, active |-> IF list[k].active THEN 1 ELSE 0,
                  at |-> list[k].at] : k \in 1..Len(list)}
    IN  {x \in table : \A r \in rows : r.id # x.id} \cup rows

\* lines 159-166: upsert_tags
UpsertTags(table, list) ==
    LET rows == {[id |-> list[k].id, name |-> list[k].name, workspace_id |-> list[k].workspace_id]
                    : k \in 1..Len(list)}
    IN  {x \in table : \A r \in rows : r.id # x.id} \cup rows

NoMeta == [last_full_sync |-> NullInt, earliest_year |-> NullInt,
           last_incremental_sync |-> NullInt, last_sync_year |-> NullInt, last_sync |-> NullInt]

\* lines 318-321: get_all_tag_names(conn)
GetAllTagNames(table) == {t.name : t \in table}

\* --------------------------------------------------------------- sync.py
\* sync.py 59, 134: project_map = {p["id"]: p.get("name", "") for p in projects}
ProjectNameOf(list, id) ==
    IF \E k \in 1..Len(list) : list[k].id = id
    THEN list[CHOOSE k \in 1..Len(list) :
                 list[k].id = id /\ \A j \in (k + 1)..Len(list) : list[j].id # id].name
    ELSE <<>>

\* Mutant: the entries are stored as fetched.
EnrichNot(es, list) == es

\* sync.py 76-78, 139-141: fill in a missing project name from the project list
Enrich(es, list) ==
    [k \in 1..Len(es) |->
        IF es[k].project_name = <<>> /\ es[k].project_id \notin {NullInt, 0}
        THEN [es[k] EXCEPT !.project_name = ProjectNameOf(list, es[k].project_id)]
        ELSE es[k]]

\* Mutant: a failed year ends the loop (break for continue).
AfterFetchFailureBreak(i, n) == n

\* sync.py 69-73: after a failed fetch the loop continues with the next year
AfterFetchFailure(i, n) == i + 1

NoRun == [y \in {0} |-> <<>>]
NoResult == [ended |-> "none"]

SyncInit ==
    /\ time_entries = {} /\ projects = {} /\ tags = {} /\ sync_meta = NoMeta
    /\ spc = "idle" /\ years = <<>> /\ yi = 0 /\ entries = <<>> /\ errors = <<>>
    /\ total_entries = 0 /\ mode = "none" /\ earliest_year = 0
    /\ project_list = <<>> /\ tag_list = <<>>
    /\ sync_result = NoResult /\ runs = 0
    /\ status = NoResult /\ chat = NoResult
    /\ fetch_log = <<>> /\ upsert_log = <<>> /\ events = <<>> /\ run_exports = <<>>
    /\ prev_exports = NoRun /\ prev_table = {}

\* Mutant: the tables are created afresh on every connection.
CreateTablesAfresh(table, empty) == empty

\* data_store.py 30-81: CREATE TABLE IF NOT EXISTS; a table that exists keeps
\* its rows, a missing one is created empty (the model's tables start empty).
CreateTables(table, empty) == table

\* data_store.py 20-27: get_connection()
GetConnection ==
    /\ time_entries' = CreateTables(time_entries, {})
    /\ projects' = CreateTables(projects, {})
    /\ tags' = CreateTables(tags, {})
    /\ sync_meta' = CreateTables(sync_meta, NoMeta)

\* Mutant: the years from the latest to the earliest.
YearRangeDescending(first, last) == [k \in 1..(last + 1 - first) |-> last + 1 - k]

\* sync.py 39: list(range(earliest_year, current_year + 1))
YearRange(first, last) == [k \in 1..(last + 1 - first) |-> first + k - 1]

\* What every sync call does on entry (sync.py 36-48, 118-128).
SyncBegin(m, e) ==
    /\ spc = "idle"
    /\ runs < MaxSyncs
    /\ runs' = runs + 1
    /\ mode' = m
    /\ earliest_year' = e
    /\ years' = IF m = "all" THEN YearRange(e, CurrentYear) ELSE <<CurrentYear>>
    /\ yi' = 0 /\ entries' = <<>> /\ errors' = <<>> /\ total_entries' = 0
    /\ project_list' = <<>> /\ tag_list' = <<>>
    /\ sync_result' = [ended |-> "running"]
    /\ spc' = "projects"
    /\ fetch_log' = <<>> /\ upsert_log' = <<>> /\ events' = <<>> /\ run_exports' = <<>>
    /\ prev_exports' = IF sync_result.ended = "returned" THEN run_exports ELSE NoRun
    /\ prev_table' = time_entries
    \* the results of earlier reads have been rendered and are gone
    /\ status' = NoResult /\ chat' = NoResult
    /\ GetConnection

\* sync.py 24-48: sync_all(client, earliest_year, progress_callback) is called
SyncAllStart == \E e \in (CurrentYear - 1)..(CurrentYear + 1) : SyncBegin("all", e)

\* sync.py 110-128: sync_current_year(client, progress_callback) is called
SyncCurrentStart == SyncBegin("current", CurrentYear)

\* The sync call ends with an exception that nothing in sync.py catches.
SyncRaises ==
    /\ spc' = "idle"
    /\ sync_result' = [ended |-> "raised", mode |-> mode]

\* sync.py 49-51, 129-130: projects = client.get_projects(); upsert_projects(conn, projects)
SyncProjects ==
    /\ spc = "projects"
    /\ \E list \in ProjectLists :
        /\ project_list' = list
        /\ projects' = UpsertProjects(projects, list)
    /\ events' = Append(events, <<"projects", 0>>)
    /\ spc' = "tags"
    /\ UNCHANGED <<time_entries, tags, sync_meta, years, yi, entries, errors, total_entries,
                   mode, earliest_year, tag_list, sync_result, runs, uiVars,
                   fetch_log, upsert_log, run_exports, prev_exports, prev_table>>

\* sync.py 49, 129: client.get_projects() raises
SyncProjectsFail ==
    /\ spc = "projects"
    /\ SyncRaises
    /\ UNCHANGED <<dbVars, years, yi, entries, errors, total_entries, mode, earliest_year,
                   project_list, tag_list, runs, uiVars, histVars>>

\* sync.py 54-56, 131-132: tags = client.get_tags(); upsert_tags(conn, tags)
SyncTags ==
    /\ spc = "tags"
    /\ \E list \in TagLists :
        /\ tag_list' = list
        /\ tags' = UpsertTags(tags, list)
    /\ events' = Append(events, <<"tags", 0>>)
    /\ spc' = IF mode = "all" THEN "all_year" ELSE "cur_fetch"
    /\ UNCHANGED <<time_entries, projects, sync_meta, years, yi, entries, errors, total_entries,
                   mode, earliest_year, project_list, sync_result, runs, uiVars,
                   fetch_log, upsert_log, run_exports, prev_exports, prev_table>>

\* sync.py 54, 131: client.get_tags() raises
SyncTagsFail ==
    /\ spc = "tags"
    /\ SyncRaises
    /\ UNCHANGED <<dbVars, years, yi, entries, errors, total_entries, mode, earliest_year,
                   project_list, tag_list, runs, uiVars, histVars>>

\* sync.py 63-68: the next year's fetch_year_entries returns
AllYearFetch ==
    /\ spc = "all_year"
    /\ yi < Len(years)
    /\ \E rows \in Exports(years[yi + 1]) :
        /\ entries' = ParseCsv(rows)
        /\ run_exports' = (years[yi + 1] :> rows) @@ run_exports
    /\ fetch_log' = Append(fetch_log, <<years[yi + 1], TRUE>>)
    /\ events' = Append(events, <<"fetch", years[yi + 1]>>)
    /\ spc' = "all_store"
    /\ UNCHANGED <<dbVars, years, yi, errors, total_entries, mode, earliest_year,
                   project_list, tag_list, sync_result, runs, uiVars,
                   upsert_log, prev_exports, prev_table>>

\* sync.py 69-73: the next year's fetch_year_entries raises
AllYearFetchFail ==
    /\ spc = "all_year"
    /\ yi < Len(years)
    /\ errors' = Append(errors, years[yi + 1])
    /\ fetch_log' = Append(fetch_log, <<years[yi + 1], FALSE>>)
    /\ events' = Append(events, <<"fetch", years[yi + 1]>>)
    /\ yi' = AfterFetchFailure(yi, Len(years))
    /\ UNCHANGED <<dbVars, spc, years, entries, total_entries, mode, earliest_year,
                   project_list, tag_list, sync_result, runs, uiVars,
                   upsert_log, run_exports, prev_exports, prev_table>>

\* sync.py 75-88: enrich, archive, upsert_time_entries(conn, entries)
AllYearStore ==
    /\ spc = "all_store"
    /\ IF UpsertRaises(Enrich(entries, project_list))
       THEN /\ SyncRaises
            /\ UNCHANGED <<time_entries, total_entries, yi, upsert_log, events, entries>>
       ELSE /\ time_entries' = UpsertTimeEntries(time_entries, Enrich(entries, project_list))
            /\ total_entries' = total_entries + Len(entries)
            /\ upsert_log' = Append(upsert_log, years[yi + 1])
            /\ events' = Append(events, <<"upsert", years[yi + 1]>>)
            /\ yi' = yi + 1
            /\ entries' = <<>>
            /\ spc' = "all_year"
            /\ UNCHANGED sync_result
    /\ UNCHANGED <<projects, tags, sync_meta, years, errors, mode, earliest_year,
                   project_list, tag_list, runs, uiVars,
                   fetch_log, run_exports, prev_exports, prev_table>>

\* sync.py 90-107: the watermarks are written and the summary is returned
AllFinish ==
    /\ spc = "all_year"
    /\ yi >= Len(years)
    /\ sync_meta' = [sync_meta EXCEPT !.last_full_sync = runs, !.earliest_year = earliest_year]
    /\ spc' = "idle"
    /\ sync_result' = [ended |-> "returned", mode |-> "all",
                       years_synced |-> Len(years), total_entries |-> total_entries,
                       projects |-> Len(project_list), tags |-> Len(tag_list),
                       errors |-> errors]
    /\ UNCHANGED <<time_entries, projects, tags, years, yi, entries, errors, total_entries,
                   mode, earliest_year, project_list, tag_list, runs, uiVars, histVars>>

\* sync.py 136-137: fetch_year_entries(year) returns
CurFetch ==
    /\ spc = "cur_fetch"
    /\ \E rows \in Exports(CurrentYear) :
        /\ entries' = ParseCsv(rows)
        /\ run_exports' = (CurrentYear :> rows) @@ run_exports
    /\ fetch_log' = Append(fetch_log, <<CurrentYear, TRUE>>)
    /\ events' = Append(events, <<"fetch", CurrentYear>>)
    /\ spc' = "cur_store"
    /\ UNCHANGED <<dbVars, years, yi, errors, total_entries, mode, earliest_year,
                   project_list, tag_list, sync_result, runs, uiVars,
                   upsert_log, prev_exports, prev_table>>

\* sync.py 137: fetch_year_entries(year) raises; nothing catches it
CurFetchFail ==
    /\ spc = "cur_fetch"
    /\ fetch_log' = Append(fetch_log, <<CurrentYear, FALSE>>)
    /\ events' = Append(events, <<"fetch", CurrentYear>>)
    /\ SyncRaises
    /\ UNCHANGED <<dbVars, years, yi, entries, errors, total_entries, mode, earliest_year,
                   project_list, tag_list, runs, uiVars,
                   upsert_log, run_exports, prev_exports, prev_table>>

\* sync.py 139-148: enrich, archive, upsert_time_entries(conn, entries)
CurStore ==
    /\ spc = "cur_store"
    /\ IF UpsertRaises(Enrich(entries, project_list))
       THEN /\ SyncRaises
            /\ UNCHANGED <<time_entries, upsert_log, events>>
       ELSE /\ time_entries' = UpsertTimeEntries(time_entries, Enrich(entries, project_list))
            /\ upsert_log' = Append(upsert_log, CurrentYear)
            /\ events' = Append(events, <<"upsert", CurrentYear>>)
            /\ spc' = "cur_meta"
            /\ UNCHANGED sync_result
    /\ UNCHANGED <<projects, tags, sync_meta, years, yi, entries, errors, total_entries,
                   mode, earliest_year, project_list, tag_list, runs, uiVars,
                   fetch_log, run_exports, prev_exports, prev_table>>

\* Mutant: only the incremental watermark is written.
IncrementalMarkOnly(meta, stamp, year) == [meta EXCEPT !.last_incremental_sync = stamp]

\* sync.py 150-152: now = datetime.now().isoformat(); set_sync_meta(conn,
\* "last_incremental_sync", now); set_sync_meta(conn, f"last_sync_{year}", now)
CurrentYearMarks(meta, stamp, year) ==
    [meta EXCEPT !.last_incremental_sync = stamp, !.last_sync_year = year, !.last_sync = stamp]

\* sync.py 150-160: the watermarks are written and the summary is returned
CurFinish ==
    /\ spc = "cur_meta"
    /\ sync_meta' = CurrentYearMarks(sync_meta, runs, CurrentYear)
    /\ spc' = "idle"
    /\ sync_result' = [ended |-> "returned", mode |-> "current",
                       year |-> CurrentYear, entries |-> Len(entries)]
    /\ UNCHANGED <<time_entries, projects, tags, years, yi, entries, errors, total_entries,
                   mode, earliest_year, project_list, tag_list, runs, uiVars, histVars>>

\* sync.py 163-177: get_sync_status()
GetSyncStatus ==
    /\ spc = "idle"
    /\ status' = [last_full_sync        |-> sync_meta.last_full_sync,
                  last_incremental_sync |-> sync_meta.last_incremental_sync,
                  earliest_year         |-> sync_meta.earliest_year,
                  years_with_data       |-> GetAvailableYears(time_entries),
                  has_data              |-> GetAvailableYears(time_entries) # {}]
    /\ GetConnection
    /\ UNCHANGED <<runVars, chat, histVars>>

\* queries.py 55-65: answer_question opens the cache and reads the known names
AnswerQuestion ==
    /\ spc = "idle"
    /\ chat' = [known_projects |-> GetAllProjectNames(time_entries),
                known_tags     |-> GetAllTagNames(tags)]
    /\ GetConnection
    /\ UNCHANGED <<runVars, status, histVars>>

SyncNext ==
    \/ SyncAllStart /\ UNCHANGED <<limVars, reqVars, auxVars>>
    \/ SyncCurrentStart /\ UNCHANGED <<limVars, reqVars, auxVars>>
    \/ SyncProjects /\ UNCHANGED <<limVars, reqVars, auxVars>>
    \/ SyncProjectsFail /\ UNCHANGED <<limVars, reqVars, auxVars>>
    \/ SyncTags /\ UNCHANGED <<limVars, reqVars, auxVars>>
    \/ SyncTagsFail /\ UNCHANGED <<limVars, reqVars, auxVars>>
    \/ AllYearFetch /\ UNCHANGED <<limVars, reqVars, auxVars>>
    \/ AllYearFetchFail /\ UNCHANGED <<limVars, reqVars, auxVars>>
    \/ AllYearStore /\ UNCHANGED <<limVars, reqVars, auxVars>>
    \/ AllFinish /\ UNCHANGED <<limVars, reqVars, auxVars>>
    \/ CurFetch /\ UNCHANGED <<limVars, reqVars, auxVars>>
    \/ CurFetchFail /\ UNCHANGED <<limVars, reqVars, auxVars>>
    \/ CurStore /\ UNCHANGED <<limVars, reqVars, auxVars>>
    \/ CurFinish /\ UNCHANGED <<limVars, reqVars, auxVars>>
    \/ GetSyncStatus /\ UNCHANGED <<limVars, reqVars, auxVars>>
    \/ AnswerQuestion /\ UNCHANGED <<limVars, reqVars, auxVars>>

\* ------------------------------------------- sync.py: progress reports
\* A fraction passed to the callback, as the exact rational num/den of the
\* decimal expression in the source.  The floats of the program differ from
\* these by rounding only, far less than any difference compared below.
Frac(n, d) == [num |-> n, den |-> d]
FracLeq(x, y) == x.num * y.den <= y.num * x.den
Hundredths(k) == Frac(k, 100)

\* sync.py 64: frac = 0.06 + (0.90 * (i / len(years)))
YearFraction(i, n) == Frac(6 * n + 90 * i, 100 * n)
\* sync.py 71, 88: frac + 0.04
YearDoneFraction(i, n) == Frac(YearFraction(i, n).num + 4 * n, 100 * n)

\* sync.py 42-45, 122-125: report(msg, frac) hands frac to the callback
Report(f) == progress' = Append(progress, f)

ProgressIdle == progress = <<>>

\* The frame of the steps of a sync seen through its progress callback only:
\* the cache, the fetched data and the histories of the cache are left out.
ProgressFrame ==
    UNCHANGED <<dbVars, entries, errors, total_entries, project_list, tag_list, runs,
                uiVars, histVars, txnVars, routeVars, fuzzyVars, idVars, extVars>>

\* sync.py 36-48: sync_all is called and reports "Fetching projects..."
ProgAllStart ==
    /\ spc = "idle"
    /\ \E n \in 0..MaxYears :
        /\ earliest_year' = CurrentYear + 1 - n
        /\ years' = [k \in 1..n |-> CurrentYear - n + k]
    /\ mode' = "all" /\ yi' = 0
    /\ sync_result' = [ended |-> "running"]
    /\ progress' = <<Hundredths(0)>>
    /\ spc' = "projects"
    /\ ProgressFrame

\* sync.py 118-128: sync_current_year is called and reports "Refreshing..."
ProgCurStart ==
    /\ spc = "idle"
    /\ earliest_year' = CurrentYear /\ years' = <<CurrentYear>>
    /\ mode' = "current" /\ yi' = 0
    /\ sync_result' = [ended |-> "running"]
    /\ progress' = <<Hundredths(0)>>
    /\ spc' = "projects"
    /\ ProgressFrame

\* An exception leaves the sync call; no report is made on the way out.
ProgRaise ==
    /\ spc \in {"projects", "tags", "all_store", "cur_fetch", "cur_store"}
    /\ spc' = "idle"
    /\ sync_result' = [ended |-> "raised", mode |-> mode]
    /\ UNCHANGED <<years, yi, mode, earliest_year, progress>>
    /\ ProgressFrame

\* sync.py 49-53: projects stored, 0.02 and 0.04 reported; sync.py 129-130
ProgProjects ==
    /\ spc = "projects"
    /\ progress' = IF mode = "all" THEN progress \o <<Hundredths(2), Hundredths(4)>> ELSE progress
    /\ spc' = "tags"
    /\ UNCHANGED <<years, yi, mode, earliest_year, sync_result>>
    /\ ProgressFrame

\* sync.py 54-56: tags stored, 0.06 reported; sync.py 131-136: 0.3 reported
ProgTags ==
    /\ spc = "tags"
    /\ Report(IF mode = "all" THEN Hundredths(6) ELSE Hundredths(30))
    /\ spc' = IF mode = "all" THEN "all_year" ELSE "cur_fetch"
    /\ UNCHANGED <<years, yi, mode, earliest_year, sync_result>>
    /\ ProgressFrame

\* sync.py 63-68: "Fetching {year}..." is reported and the fetch returns
ProgYearFetch ==
    /\ spc = "all_year" /\ yi < Len(years)
    /\ Report(YearFraction(yi, Len(years)))
    /\ spc' = "all_store"
    /\ UNCHANGED <<years, yi, mode, earliest_year, sync_result>>
    /\ ProgressFrame

\* sync.py 63-73: "Fetching {year}..." is reported, the fetch raises and the
\* failure is reported
ProgYearFetchFail ==
    /\ spc = "all_year" /\ yi < Len(years)
    /\ progress' = progress \o <<YearFraction(yi, Len(years)), YearDoneFraction(yi, Len(years))>>
    /\ yi' = AfterFetchFailure(yi, Len(years))
    /\ UNCHANGED <<spc, years, mode, earliest_year, sync_result>>
    /\ ProgressFrame

\* sync.py 75-88: the year is stored and reported
ProgYearStore ==
    /\ spc = "all_store"
    /\ Report(YearDoneFraction(yi, Len(years)))
    /\ yi' = yi + 1
    /\ spc' = "all_year"
    /\ UNCHANGED <<years, mode, earliest_year, sync_result>>
    /\ ProgressFrame

\* sync.py 90-107: "Sync complete!" is reported (twice) and sync_all returns
ProgAllFinish ==
    /\ spc = "all_year" /\ yi >= Len(years)
    /\ progress' = progress \o <<Hundredths(100), Hundredths(100)>>
    /\ spc' = "idle"
    /\ sync_result' = [ended |-> "returned", mode |-> "all"]
    /\ UNCHANGED <<years, yi, mode, earliest_year>>
    /\ ProgressFrame

\* sync.py 137: fetch_year_entries returns
ProgCurFetch ==
    /\ spc = "cur_fetch"
    /\ spc' = "cur_store"
    /\ UNCHANGED <<years, yi, mode, earliest_year, sync_result, progress>>
    /\ ProgressFrame

\* sync.py 139-160: stored, "Sync complete!" reported, sync_current_year returns
ProgCurFinish ==
    /\ spc = "cur_store"
    /\ Report(Hundredths(100))
    /\ spc' = "idle"
    /\ sync_result' = [ended |-> "returned", mode |-> "current"]
    /\ UNCHANGED <<years, yi, mode, earliest_year>>
    /\ ProgressFrame

ProgressNext ==
    \/ ProgAllStart /\ UNCHANGED <<limVars, reqVars>>
    \/ ProgCurStart /\ UNCHANGED <<limVars, reqVars>>
    \/ ProgRaise /\ UNCHANGED <<limVars, reqVars>>
    \/ ProgProjects /\ UNCHANGED <<limVars, reqVars>>
    \/ ProgTags /\ UNCHANGED <<limVars, reqVars>>
    \/ ProgYearFetch /\ UNCHANGED <<limVars, reqVars>>
    \/ ProgYearFetchFail /\ UNCHANGED <<limVars, reqVars>>
    \/ ProgYearStore /\ UNCHANGED <<limVars, reqVars>>
    \/ ProgAllFinish /\ UNCHANGED <<limVars, reqVars>>
    \/ ProgCurFetch /\ UNCHANGED <<limVars, reqVars>>
    \/ ProgCurFinish /\ UNCHANGED <<limVars, reqVars>>

\* ------------------------------- data_store.py: a batch as a transaction
\* upsert_time_entries writes a batch with one executemany and one commit
\* (data_store.py 135-142) on a connection in sqlite3's default transaction
\* mode: the first INSERT opens a transaction, commit() ends it.
NoTxn == [open |-> FALSE, table |-> {}]
OpenTxn(table) == [open |-> TRUE, table |-> table]

\* Mutant: statements are committed one by one (autocommit).
VisibleDirty(committed, open) == IF open.open THEN open.table ELSE committed

\* What another connection reads, and what is left after the writing process
\* is killed: the committed table, nothing of an open transaction.
Visible(committed, open) == committed

TxnIdle ==
    /\ txn = NoTxn /\ todo = <<>> /\ seen = NoResult
    /\ batch_base = {} /\ batch_entries = <<>>

\* The frame of the steps of sync_all's year loop seen from the store.
BatchFrame ==
    UNCHANGED <<projects, tags, sync_meta, errors, total_entries, mode, earliest_year,
                project_list, tag_list, uiVars, fetch_log, events, run_exports, prev_exports,
                prev_table, progVars, routeVars, fuzzyVars, idVars, extVars>>

\* sync.py 36-63: sync_all is called and reaches its year loop
BatchPassStart ==
    /\ spc = "idle"
    /\ runs < MaxSyncs
    /\ runs' = runs + 1
    /\ years' = <<CurrentYear - 1, CurrentYear>>
    /\ yi' = 0 /\ entries' = <<>>
    /\ upsert_log' = <<>>
    /\ sync_result' = [ended |-> "running"]
    /\ spc' = "all_year"
    /\ seen' = NoResult
    /\ UNCHANGED <<time_entries, txn, todo, batch_base, batch_entries>>
    /\ BatchFrame

\* sync.py 63-78: the next year's entries are fetched
BatchFetch ==
    /\ spc = "all_year" /\ yi < Len(years)
    /\ \E rows \in Exports(years[yi + 1]) : entries' = Enrich(ParseCsv(rows), project_list)
    /\ spc' = "all_store"
    /\ UNCHANGED <<time_entries, years, yi, runs, upsert_log, sync_result, txnVars>>
    /\ BatchFrame

\* sync.py 69-73: the next year's fetch raises
BatchFetchFail ==
    /\ spc = "all_year" /\ yi < Len(years)
    /\ yi' = AfterFetchFailure(yi, Len(years))
    /\ UNCHANGED <<time_entries, spc, years, entries, runs, upsert_log, sync_result, txnVars>>
    /\ BatchFrame

\* data_store.py 88-133: upsert_time_entries builds the rows of the batch
BatchBegin ==
    /\ spc = "all_store"
    /\ ~UpsertRaises(entries)
    /\ todo' = entries
    /\ txn' = OpenTxn(time_entries)
    /\ batch_base' = time_entries
    /\ batch_entries' = entries
    /\ spc' = "executing"
    /\ UNCHANGED <<time_entries, years, yi, entries, runs, upsert_log, sync_result, seen>>
    /\ BatchFrame

\* data_store.py 135-141: executemany writes the next row of the batch
BatchExecute ==
    /\ spc = "executing" /\ todo # <<>>
    /\ txn' = OpenTxn(InsertOrReplace(txn.table, EntryRow(Head(todo))))
    /\ todo' = Tail(todo)
    /\ time_entries' = Visible(time_entries, txn')
    /\ UNCHANGED <<spc, years, yi, entries, runs, upsert_log, sync_result, seen,
                   batch_base, batch_entries>>
    /\ BatchFrame

\* data_store.py 142: conn.commit()
BatchCommit ==
    /\ spc = "executing" /\ todo = <<>>
    /\ time_entries' = txn.table
    /\ txn' = NoTxn
    /\ upsert_log' = Append(upsert_log, years[yi + 1])
    /\ yi' = yi + 1
    /\ entries' = <<>>
    /\ spc' = "all_year"
    /\ UNCHANGED <<years, runs, sync_result, todo, seen, batch_base, batch_entries>>
    /\ BatchFrame

\* sync.py 90-107: the loop is over and sync_all returns
BatchPassEnd ==
    /\ spc = "all_year" /\ yi >= Len(years)
    /\ spc' = "idle"
    /\ sync_result' = [ended |-> "returned", mode |-> "all"]
    /\ UNCHANGED <<time_entries, years, yi, entries, runs, upsert_log, txnVars>>
    /\ BatchFrame

\* The syncing process is killed; an open transaction is rolled back.
BatchInterrupt ==
    /\ spc # "idle"
    /\ time_entries' = Visible(time_entries, txn)
    /\ txn' = NoTxn /\ todo' = <<>>
    /\ spc' = "idle"
    /\ sync_result' = [ended |-> "interrupted", mode |-> "all"]
    /\ UNCHANGED <<years, yi, entries, runs, upsert_log, seen, batch_base, batch_entries>>
    /\ BatchFrame

\* data_store.py 187-213: another connection reads the entries
ReaderReads ==
    /\ seen' = [table |-> Visible(time_entries, txn),
                rows  |-> GetEntriesDf(Visible(time_entries, txn), NullInt, NullText, NullText),
                base  |-> batch_base, batch |-> batch_entries]
    /\ UNCHANGED <<time_entries, spc, years, yi, entries, runs, upsert_log, sync_result,
                   txn, todo, batch_base, batch_entries>>
    /\ BatchFrame

BatchNext ==
    \/ BatchPassStart /\ UNCHANGED <<limVars, reqVars>>
    \/ BatchFetch /\ UNCHANGED <<limVars, reqVars>>
    \/ BatchFetchFail /\ UNCHANGED <<limVars, reqVars>>
    \/ BatchBegin /\ UNCHANGED <<limVars, reqVars>>
    \/ BatchExecute /\ UNCHANGED <<limVars, reqVars>>
    \/ BatchCommit /\ UNCHANGED <<limVars, reqVars>>
    \/ BatchPassEnd /\ UNCHANGED <<limVars, reqVars>>
    \/ BatchInterrupt /\ UNCHANGED <<limVars, reqVars>>
    \/ ReaderReads /\ UNCHANGED <<limVars, reqVars>>

\* ------------------------------------------ queries.py: answer_question
\* A question is modelled by its words: `q` is the words joined by single
\* blanks.  The words are lower-case letters and digits only, and each pattern
\* of the router is stated on the words exactly as the regular expression of
\* the source matches the joined text.  The operators below that look inside a
\* word (a suffix, a prefix, the digits) are tables over the words in use.
Words == {"top", "projects", "tagged", "on", "march", "15", "this", "week", "compare",
          "2023", "2024", "vs", "and", "total", "in", "project", "search", "work",
          "zen", "deep", "hello"}

\* \b(20\d{2})\b, and 20\d{2} at the start or at the end of a word
IsYearWord(w) == w \in {"2023", "2024"}
YearValue(w) == IF w = "2023" THEN 2023 ELSE 2024
\* the word starts with a digit: (\d{1,2}) matches its first one or two digits
StartsWithDigit(w) == w \in {"15", "2023", "2024"}
DayValue(w) == IF w = "15" THEN 15 ELSE 20
\* (\d{1,2})(?:st|nd|rd|th)? takes the whole word
IsDayWord(w) == w = "15"
\* MONTH_MAP.get(w), 0 for None
MonthNum(w) == IF w = "march" THEN 3 ELSE 0

\* kw in q, for the two-word keywords: a word ending in `first` and then a
\* word starting with `second`
HasPair(q, firsts, seconds) ==
    \E i \in 1..(Len(q) - 1) : q[i] \in firsts /\ q[i + 1] \in seconds
\* kw in q, for the one-word keywords: a word containing one of them
HasWord(q, ws) == \E i \in 1..Len(q) : q[i] \in ws

NoYear == 0
\* queries.py 70-71: re.search(r'\b(20\d{2})\b', q), the first year word
FirstYear(q) ==
    IF \E i \in 1..Len(q) : IsYearWord(q[i])
    THEN YearValue(q[CHOOSE i \in 1..Len(q) :
                        IsYearWord(q[i]) /\ \A j \in 1..(i - 1) : ~IsYearWord(q[j])])
    ELSE NoYear

\* The first position whose word is in `ws` and is followed by `more` words
\* at least; 0 when there is none.
FirstLead(q, ws, more) ==
    IF \E i \in 1..(Len(q) - more) : q[i] \in ws
    THEN CHOOSE i \in 1..(Len(q) - more) :
            q[i] \in ws /\ \A j \in 1..(i - 1) : q[j] \notin ws
    ELSE 0

\* ["\']?(.+?)["\']?(?:\s+in\s+(20\d{2}))?$ on the words after position i:
\* the name, and the year when the text ends in "in <year>" after a name.
ScopedTail(q, i) ==
    LET rest == SubSeq(q, i + 1, Len(q))
        n    == Len(rest)
    IN  IF n >= 3 /\ rest[n - 1] = "in" /\ IsYearWord(rest[n])
        THEN [name |-> SubSeq(rest, 1, n - 2), year |-> YearValue(rest[n])]
        ELSE [name |-> rest, year |-> NoYear]

\* name.lower() == known.lower(), the known name being one word
NameEquals(name, known) == name = <<known>>
\* lower in known.lower() or known.lower() in lower
NameOverlaps(name, known) == name = <<known>> \/ \E i \in 1..Len(name) : name[i] = known

NoMatch == ""
\* queries.py 30-52: _fuzzy_match_project and _fuzzy_match_tag on words
FuzzyMatch(name, known) ==
    IF \E k \in 1..Len(known) : NameEquals(name, known[k])
    THEN known[CHOOSE k \in 1..Len(known) :
                   NameEquals(name, known[k]) /\ \A j \in 1..(k - 1) : ~NameEquals(name, known[j])]
    ELSE IF \E k \in 1..Len(known) : NameOverlaps(name, known[k])
    THEN known[CHOOSE k \in 1..Len(known) :
                   NameOverlaps(name, known[k]) /\ \A j \in 1..(k - 1) : ~NameOverlaps(name, known[j])]
    ELSE NoMatch

\* The first known name that occurs in q (queries.py 135-136, 141-142)
FirstMentioned(q, known) ==
    IF \E k \in 1..Len(known) : HasWord(q, {known[k]})
    THEN known[CHOOSE k \in 1..Len(known) :
                   HasWord(q, {known[k]}) /\ \A j \in 1..(k - 1) : ~HasWord(q, {known[j]})]
    ELSE NoMatch

Answer(h, name, year, month, day) ==
    [handler |-> h, name |-> name, year |-> year, month |-> month, day |-> day, year_b |-> NoYear]
Handled(h) == Answer(h, NoMatch, NoYear, 0, 0)

\* queries.py 68-78: "top projects", "top tags"
TopProjectsMatches(q) == HasPair(q, {"top"}, {"project", "projects"})
TopTagsMatches(q) == HasPair(q, {"top"}, {"tagged"})

\* queries.py 81-83: (?:tagged|tag)\s+["\']?(.+?)["\']?(?:\s+in\s+(20\d{2}))?$
TagLead(q) == FirstLead(q, {"tagged"}, 1)
TagMatches(q) == TagLead(q) # 0

\* queries.py 93-96: (?:on|for)\s+(\w+)\s+(\d{1,2})(?:st|nd|rd|th)?(?:[,\s]+(\d{4}))?
DateLead(q) ==
    IF \E i \in 1..(Len(q) - 2) : q[i] = "on" /\ StartsWithDigit(q[i + 2])
    THEN CHOOSE i \in 1..(Len(q) - 2) :
            /\ q[i] = "on" /\ StartsWithDigit(q[i + 2])
            /\ \A j \in 1..(i - 1) : ~(q[j] = "on" /\ StartsWithDigit(q[j + 2]))
    ELSE 0
\* queries.py 97-105: the pattern matched and the word is a month name
DateMatches(q) == DateLead(q) # 0 /\ MonthNum(q[DateLead(q) + 1]) # 0
DateYear(q) ==
    LET i == DateLead(q)
    IN  IF IsDayWord(q[i + 2]) /\ Len(q) >= i + 3 /\ IsYearWord(q[i + 3])
        THEN YearValue(q[i + 3]) ELSE NoYear

\* queries.py 108-116: "this week", "last week", week\s*(\d{1,2})
ThisWeekMatches(q) == HasPair(q, {"this"}, {"week"})
WeekNumberMatches(q) == \E i \in 1..(Len(q) - 1) : q[i] = "week" /\ StartsWithDigit(q[i + 1])
WeekNumber(q) ==
    DayValue(q[1 + CHOOSE i \in 1..(Len(q) - 1) :
                     /\ q[i] = "week" /\ StartsWithDigit(q[i + 1])
                     /\ \A j \in 1..(i - 1) : ~(q[j] = "week" /\ StartsWithDigit(q[j + 1]))])

\* queries.py 127: (?:compare\s+)?(20\d{2})\s+(?:and|vs|to|with|versus)\s+(20\d{2})
CompareAt(q, i) == IsYearWord(q[i]) /\ q[i + 1] \in {"and", "vs"} /\ IsYearWord(q[i + 2])
CompareMatches(q) == \E i \in 1..(Len(q) - 2) : CompareAt(q, i)
CompareLead(q) ==
    CHOOSE i \in 1..(Len(q) - 2) : CompareAt(q, i) /\ \A j \in 1..(i - 1) : ~CompareAt(q, j)

\* queries.py 133: "total", "overall", ...
TotalMatches(q) == HasWord(q, {"total"})

\* queries.py 148: (?:in|last|for)\s+(\w+)(?:\s+(20\d{2}))?
MonthLead(q) == FirstLead(q, {"in"}, 1)
\* queries.py 149-154: the pattern matched and the word is a month name
MonthMatches(q) == MonthLead(q) # 0 /\ MonthNum(q[MonthLead(q) + 1]) # 0
MonthYear(q) ==
    LET i == MonthLead(q)
    IN  IF Len(q) >= i + 2 /\ IsYearWord(q[i + 2]) THEN YearValue(q[i + 2]) ELSE NoYear

\* queries.py 157: \b(20\d{2})\b
YearMatches(q) == FirstYear(q) # NoYear

\* queries.py 162-164: (?:project)\s+["\']?(.+?)["\']?(?:\s+in\s+(20\d{2}))?$
ProjectLead(q) == FirstLead(q, {"project"}, 1)
ProjectMatches(q) == ProjectLead(q) # 0

\* queries.py 174-176: the whole question is a known project name
BareProjectMatches(q, known) == \E k \in 1..Len(known) : q = <<known[k]>>

\* queries.py 179: (?:search|find|look for|when did i)\s+(.+)
SearchMatches(q) == FirstLead(q, {"search"}, 1) # 0

\* queries.py 473-498: _help_message(known_projects, known_tags)
HelpMessage(projs, tgs) ==
    IF projs # <<>> /\ Len(projs) < 2 THEN Handled("IndexError") ELSE Handled("help")

\* queries.py 60-186: the chain of matchers of answer_question, in its order
Route(q, projs, tgs) ==
    IF TopProjectsMatches(q) THEN Answer("top_projects", NoMatch, FirstYear(q), 0, 0)
    ELSE IF TopTagsMatches(q) THEN Answer("top_tags", NoMatch, FirstYear(q), 0, 0)
    ELSE IF TagMatches(q) THEN
        LET t == ScopedTail(q, TagLead(q))
        IN  IF FuzzyMatch(t.name, tgs) # NoMatch
            THEN Answer("tag", FuzzyMatch(t.name, tgs), t.year, 0, 0)
            ELSE Handled("no_tag")
    ELSE IF DateMatches(q) THEN
        IF DateYear(q) # NoYear
        THEN Answer("specific_date", NoMatch, DateYear(q),
                    MonthNum(q[DateLead(q) + 1]), DayValue(q[DateLead(q) + 2]))
        ELSE Answer("date_across_years", NoMatch, NoYear,
                    MonthNum(q[DateLead(q) + 1]), DayValue(q[DateLead(q) + 2]))
    ELSE IF ThisWeekMatches(q) THEN Handled("week")
    ELSE IF WeekNumberMatches(q) THEN Answer("week", NoMatch, NoYear, 0, WeekNumber(q))
    ELSE IF CompareMatches(q) THEN
        [Answer("compare", NoMatch, YearValue(q[CompareLead(q)]), 0, 0)
            EXCEPT !.year_b = YearValue(q[CompareLead(q) + 2])]
    ELSE IF TotalMatches(q) THEN
        IF FirstMentioned(q, projs) # NoMatch
        THEN Answer("project", FirstMentioned(q, projs), FirstYear(q), 0, 0)
        ELSE IF FirstMentioned(q, tgs) # NoMatch
        THEN Answer("tag", FirstMentioned(q, tgs), FirstYear(q), 0, 0)
        ELSE Handled("totals")
    ELSE IF MonthMatches(q) THEN
        Answer("month", NoMatch, MonthYear(q), MonthNum(q[MonthLead(q) + 1]), 0)
    ELSE IF YearMatches(q) THEN Answer("year", NoMatch, FirstYear(q), 0, 0)
    ELSE IF ProjectMatches(q) THEN
        LET t == ScopedTail(q, ProjectLead(q))
        IN  IF FuzzyMatch(t.name, projs) # NoMatch
            THEN Answer("project", FuzzyMatch(t.name, projs), t.year, 0, 0)
            ELSE Handled("no_project")
    ELSE IF BareProjectMatches(q, projs) THEN Answer("project", q[1], NoYear, 0, 0)
    ELSE IF SearchMatches(q) THEN Handled("search")
    ELSE HelpMessage(projs, tgs)

\* The phrases questions are made of.
Phrases ==
    {<<"top", "projects">>, <<"tagged">>, <<"on", "march", "15">>, <<"this", "week">>,
     <<"2023", "vs", "2024">>, <<"compare">>, <<"2023">>, <<"and">>, <<"total">>,
     <<"in", "march">>, <<"project">>, <<"search">>, <<"work">>, <<"deep">>, <<"hello">>}

RECURSIVE Questions(_)
\* The questions of at most n phrases.
Questions(n) ==
    IF n = 0 THEN {<<>>}
    ELSE LET shorter == Questions(n - 1)
         IN  shorter \cup {s \o p : s \in shorter, p \in Phrases}

\* What get_all_project_names and get_all_tag_names can return: sorted names.
KnownProjectLists == {<<>>, <<"work">>, <<"work", "zen">>}
KnownTagLists == {<<>>, <<"deep">>}

NoRoute == Handled("none")
RouteIdle ==
    /\ question = <<>> /\ known_projects = <<>> /\ known_tags = <<>> /\ route = NoRoute

\* queries.py 55-189: one call of answer_question
Ask ==
    /\ route = NoRoute
    /\ \E q \in Questions(MaxPhrases) \ {<<>>}, projs \in KnownProjectLists, tgs \in KnownTagLists :
        /\ question' = q
        /\ known_projects' = projs
        /\ known_tags' = tgs
        /\ route' = Route(q, projs, tgs)
    /\ UNCHANGED <<limVars, reqVars, syncVars, progVars, txnVars, fuzzyVars, idVars, extVars>>

\* pages/3_Chat.py: the answer is shown and the next question can be asked
ShowAnswer ==
    /\ route # NoRoute
    /\ question' = <<>> /\ known_projects' = <<>> /\ known_tags' = <<>> /\ route' = NoRoute
    /\ UNCHANGED <<limVars, reqVars, syncVars, progVars, txnVars, fuzzyVars, idVars, extVars>>

RouterNext ==
    \/ Ask
    \/ ShowAnswer

\* ---------------------------------- queries.py: _fuzzy_match_project
\* queries.py 32-39: the first known name equal to the query without case,
\* else the first that contains the query or is contained in it, else None
FuzzyMatchProject(name, known) ==
    LET lower == Strip(Lower(name))
        Same(k) == Lower(known[k]) = lower
        Near(k) == Contains(Lower(known[k]), lower) \/ Contains(lower, Lower(known[k]))
    IN  IF \E k \in 1..Len(known) : Same(k)
        THEN known[CHOOSE k \in 1..Len(known) : Same(k) /\ \A j \in 1..(k - 1) : ~Same(j)]
        ELSE IF \E k \in 1..Len(known) : Near(k)
        THEN known[CHOOSE k \in 1..Len(known) : Near(k) /\ \A j \in 1..(k - 1) : ~Near(j)]
        ELSE NullText

\* queries.py 43-52: _fuzzy_match_tag, the same search over the tag names
FuzzyMatchTag(name, known) == FuzzyMatchProject(name, known)

\* The characters names are made of: "A", "a", "b".
NameChars == {65, 97, 98}
RECURSIVE TextsUpTo(_)
\* The non-empty texts of at most n characters.
TextsUpTo(n) ==
    IF n = 0 THEN {}
    ELSE LET shorter == TextsUpTo(n - 1)
         IN  {<<c>> : c \in NameChars} \cup {t \o <<c>> : t \in shorter, c \in NameChars}
Names == TextsUpTo(MaxNameLen)

RECURSIVE SortedLists(_)
\* What get_all_project_names returns (data_store.py 308-315): distinct
\* non-empty names in ascending byte order; here at most n of them.
SortedLists(n) ==
    IF n = 0 THEN {<<>>}
    ELSE LET shorter == SortedLists(n - 1)
         IN  shorter \cup {Append(l, t) : l \in {l \in shorter : Len(l) = n - 1},
                                           t \in Names}
KnownLists ==
    {l \in SortedLists(MaxKnown) : \A k \in 1..(Len(l) - 1) : TextLess(l[k], l[k + 1])}

NotCalled == <<-2>>
FuzzyIdle ==
    /\ fuzzy_fn = "none" /\ fuzzy_name = <<>> /\ fuzzy_known = <<>> /\ fuzzy_result = NotCalled
FuzzyInputs ==
    /\ fuzzy_fn = "none" /\ fuzzy_name \in Names /\ fuzzy_known \in KnownLists
    /\ fuzzy_result = NotCalled
FuzzyFrame == UNCHANGED <<limVars, reqVars, syncVars, progVars, txnVars, routeVars, idVars, extVars>>

\* queries.py 30-40: _fuzzy_match_project(name, known_projects)
FuzzyMatchProjectCall ==
    /\ fuzzy_fn = "none"
    /\ fuzzy_fn' = "project"
    /\ fuzzy_result' = FuzzyMatchProject(fuzzy_name, fuzzy_known)
    /\ UNCHANGED <<fuzzy_name, fuzzy_known>>
    /\ FuzzyFrame

\* queries.py 43-52: _fuzzy_match_tag(name, known_tags)
FuzzyMatchTagCall ==
    /\ fuzzy_fn = "none"
    /\ fuzzy_fn' = "tag"
    /\ fuzzy_result' = FuzzyMatchTag(fuzzy_name, fuzzy_known)
    /\ UNCHANGED <<fuzzy_name, fuzzy_known>>
    /\ FuzzyFrame

FuzzyNext ==
    \/ FuzzyMatchProjectCall
    \/ FuzzyMatchTagCall

\* ------------------------------ toggl_client.py: the id of an export row
\* Texts of the export: "a", "a|b", "c", "b|c".
IdDescriptions == {<<97>>, <<97, Bar, 98>>}
IdProjects == {<<99>>, <<98, Bar, 99>>}
IdRows ==
    {CsvRow(DateText(CurrentYear, 3, 1), st, en, dur, desc, proj, <<>>, No) :
        st \in {TimeText(0, 0, 0), TimeText(9, 0, 0)},
        en \in {TimeText(9, 30, 0), TimeText(10, 0, 0)},
        dur \in {<<Digit(0), Colon, Digit(3), Digit(0), Colon, Digit(0), Digit(0)>>,
                 <<Digit(1), Colon, Digit(0), Digit(0), Colon, Digit(0), Digit(0)>>},
        desc \in IdDescriptions, proj \in IdProjects}

IdIdle == csv_rows = <<>> /\ pass_ids = <<>> /\ passes = <<>>
IdInputs == csv_rows \in (IdRows \X IdRows) /\ pass_ids = <<>> /\ passes = <<>>
IdFrame == UNCHANGED <<limVars, reqVars, syncVars, progVars, txnVars, routeVars, fuzzyVars, extVars>>

\* toggl_client.py 342-386: the loop body, for the next row of the export
ParseNextRow ==
    /\ Len(passes) < MaxPasses
    /\ Len(pass_ids) < Len(csv_rows)
    /\ pass_ids' = Append(pass_ids, ParseRow(csv_rows[Len(pass_ids) + 1]).id)
    /\ UNCHANGED <<csv_rows, passes>>
    /\ IdFrame

\* toggl_client.py 388: the pass returns its entries; the next pass can start
PassReturns ==
    /\ Len(passes) < MaxPasses
    /\ Len(pass_ids) = Len(csv_rows)
    /\ passes' = Append(passes, pass_ids)
    /\ pass_ids' = <<>>
    /\ UNCHANGED csv_rows
    /\ IdFrame

IdNext ==
    \/ ParseNextRow
    \/ PassReturns

\* ------------------------------------ toggl_client.py: fetch_year_csv
NoRange == [start_date |-> <<>>, end_date |-> <<>>]

\* toggl_client.py 393-395: f"{year}-01-01", and f"{year}-12-31" if
\* year < today.year else today.isoformat()
FetchYearRange(year, today) ==
    [start_date |-> FmtInt(year) \o <<Dash, 48, 49, Dash, 48, 49>>,
     end_date   |-> IF year < today[1]
                    THEN FmtInt(year) \o <<Dash, 49, 50, Dash, 51, 49>>
                    ELSE DateText(today[1], today[2], today[3])]

\* The days date.today() is drawn from, and the years given to the call.
Todays == {<<CurrentYear, m, d>> : m \in 1..12, d \in 1..28} \cup {<<CurrentYear, 12, 31>>}
YearArguments == (CurrentYear - 2)..(CurrentYear + 1)

RangeIdle == fy_year = 0 /\ fy_today = <<0, 0, 0>> /\ fy_args = NoRange /\ fy_body = NoRange
RangeInputs ==
    /\ fy_year \in YearArguments /\ fy_today \in Todays
    /\ fy_args = NoRange /\ fy_body = NoRange
RangeFrame ==
    UNCHANGED <<limVars, reqVars, syncVars, progVars, txnVars, routeVars, fuzzyVars, idVars, upVars, lateVars>>

\* toggl_client.py 391-395: fetch_year_csv(year) up to the call of export_detailed_csv
FetchYearCsv ==
    /\ fy_args = NoRange
    /\ fy_args' = FetchYearRange(fy_year, fy_today)
    /\ UNCHANGED <<fy_year, fy_today, fy_body>>
    /\ RangeFrame

\* toggl_client.py 255-262: export_detailed_csv posts the two dates as the body
ExportDetailedCsv ==
    /\ fy_args # NoRange /\ fy_body = NoRange
    /\ fy_body' = [start_date |-> fy_args.start_date, end_date |-> fy_args.end_date]
    /\ UNCHANGED <<fy_year, fy_today, fy_args>>
    /\ RangeFrame

RangeNext ==
    \/ FetchYearCsv
    \/ ExportDetailedCsv

\* ------------------------------ data_store.py: upsert_time_entries alone
\* An entry as fetch_year_entries and the callers of the store build it.
UpEntry(id, start, duration, tgs) ==
    [id |-> id, description |-> <<100>>, start |-> start, stop |-> <<>>, duration |-> duration,
     project_id |-> NullInt, project_name |-> <<80>>, workspace_id |-> NullInt,
     tags |-> tgs, tag_ids |-> <<>>, billable |-> FALSE, at |-> <<>>]
\* A timestamp in March, one on the last day of the year before, no start at
\* all, and a text that is no date.
UpStarts ==
    {DateText(CurrentYear, 3, 1) \o <<84>> \o TimeText(9, 0, 0),
     DateText(CurrentYear - 1, 12, 31) \o <<84>> \o TimeText(23, 59, 59),
     <<>>, <<97, 98, 99, 100>>}
\* A finished entry without tags and a running one with a tag.
UpEntries ==
    {UpEntry(id, st, 1800, <<>>) : id \in {1, 2}, st \in UpStarts}
      \cup {UpEntry(id, st, 0 - 5, <<<<120>>>>) : id \in {1, 2}, st \in UpStarts}
\* One entry, or an entry with id 1 and then any entry (the same id again, or another).
UpBatches ==
    {<<e>> : e \in UpEntries} \cup {<<e, f>> : e \in {x \in UpEntries : x.id = 1}, f \in UpEntries}

UpIdle == up_before = {} /\ up_entries = <<>> /\ up_after = {} /\ up_calls = 0
UpFrame ==
    UNCHANGED <<limVars, reqVars, syncVars, progVars, txnVars, routeVars, fuzzyVars, idVars,
                rangeVars, lateVars>>

\* data_store.py 88-142: upsert_time_entries(conn, entries) returns
UpsertCall ==
    /\ up_calls < MaxUpserts
    /\ \E es \in UpBatches :
        /\ ~UpsertRaises(es)
        /\ up_entries' = es
        /\ up_after' = UpsertTimeEntries(up_after, es)
    /\ up_before' = up_after
    /\ up_calls' = up_calls + 1
    /\ UpFrame

\* data_store.py 101-104: int() raises while the rows are built; nothing is written
UpsertCallRaises ==
    /\ up_calls < MaxUpserts
    /\ \E es \in UpBatches :
        /\ UpsertRaises(es)
        /\ up_entries' = es
    /\ up_before' = up_after
    /\ up_calls' = up_calls + 1
    /\ UNCHANGED up_after
    /\ UpFrame

UpNext ==
    \/ UpsertCall
    \/ UpsertCallRaises

\* Everything that this section's specifications leave alone.
\* ------------------------------------------- enrichment with project names
\* An entry as a client hands it to the sync: the export parser leaves the project
\* reference empty (toggl_client.py 379), the report flattener copies it (315).
EnEntry(id, name, ref) ==
    [UpEntry(id, <<50,48,50,52,45,48,51,45,48,49,84,48,57,58,48,48,58,48,48>>, 1800, <<>>)
        EXCEPT !.project_name = name, !.project_id = ref]
EnNames == {<<>>, <<80>>}
EnRefs == {NullInt, 1, 2}
EnEntryLists ==
    {<<EnEntry(1, n, r)>> : n \in EnNames, r \in EnRefs}
        \cup {<<EnEntry(1, n[1], r[1]), EnEntry(2, n[2], r[2])>> :
                n \in EnNames \X EnNames, r \in EnRefs \X EnRefs}
EnProject(id, name) ==
    [id |-> id, name |-> name, workspace_id |-> 9, color |-> <<>>, active |-> TRUE, at |-> <<>>]
EnProjectLists ==
    {<<>>, <<EnProject(1, <<81>>)>>, <<EnProject(1, <<81>>), EnProject(2, <<82>>)>>,
     <<EnProject(2, <<82>>), EnProject(1, <<>>)>>}

EnIdle == en_projects = <<>> /\ en_entries = <<>> /\ en_stored = {} /\ en_mode = "none"
EnInputs ==
    /\ en_projects \in EnProjectLists /\ en_entries \in EnEntryLists
    /\ en_stored = {} /\ en_mode = "none"
EnFrame ==
    UNCHANGED <<limVars, reqVars, syncVars, progVars, txnVars, routeVars, fuzzyVars, idVars,
                rangeVars, upVars, moVars, clVars, pgVars, twVars>>

\* sync.py 76-86: sync_all enriches the entries of a year and stores them
EnrichAllYears ==
    /\ en_mode = "none"
    /\ en_mode' = "all"
    /\ en_stored' = UpsertTimeEntries(en_stored, Enrich(en_entries, en_projects))
    /\ UNCHANGED <<en_projects, en_entries>>
    /\ EnFrame

\* sync.py 139-148: sync_current_year enriches the entries and stores them
EnrichCurrentYear ==
    /\ en_mode = "none"
    /\ en_mode' = "current"
    /\ en_stored' = UpsertTimeEntries(en_stored, Enrich(en_entries, en_projects))
    /\ UNCHANGED <<en_projects, en_entries>>
    /\ EnFrame

EnNext == EnrichAllYears \/ EnrichCurrentYear

\* ---------------------------------------------------------- _answer_month
\* queries.py 270-276: the date range _answer_month asks get_entries_df for
MonthRange(month, year) ==
    [start_date |-> FmtInt(year) \o <<Dash>> \o Fmt2(month) \o <<Dash, 48, 49>>,
     end_date   |-> IF month = 12 THEN FmtInt(year) \o <<Dash, 49, 50, Dash, 51, 49>>
                    ELSE FmtInt(year) \o <<Dash>> \o Fmt2(month + 1) \o <<Dash, 48, 49>>]

\* queries.py 270-282: the rows `df` the summary is computed from
AnswerMonthRows(table, month, year) ==
    IF year # 0
    THEN GetEntriesDf(table, NullInt, MonthRange(month, year).start_date,
                      MonthRange(month, year).end_date)
    ELSE {r \in GetEntriesDf(table, NullInt, NullText, NullText) : r.start_month = month}

MoDays ==
    {<<2023, 3, 15>>, <<2024, 2, 29>>, <<2024, 3, 1>>, <<2024, 3, 31>>, <<2024, 4, 1>>,
     <<2024, 4, 2>>, <<2024, 12, 31>>, <<2025, 1, 1>>}
MoId(d) == (d[1] - 2020) * 10000 + d[2] * 100 + d[3]
MoStart(d) == DateText(d[1], d[2], d[3]) \o <<84, 48, 57, 58, 48, 48, 58, 48, 48>>
\* one entry per day, and a running entry (no positive duration) in March
MoEntries ==
    {UpEntry(MoId(d), MoStart(d), 1800, <<>>) : d \in MoDays}
        \cup {UpEntry(1, MoStart(<<2024, 3, 10>>), 0 - 5, <<>>)}
MoTables == {{EntryRow(e) : e \in es} : es \in SUBSET MoEntries}
MoMonths == {3, 12}
MoYears == {2023, 2024}

MoIdle == mo_table = {} /\ mo_month = 0 /\ mo_year = 0 /\ mo_df = {} /\ mo_asked = FALSE
MoInputs == mo_table \in MoTables /\ mo_month = 0 /\ mo_year = 0 /\ mo_df = {} /\ mo_asked = FALSE
MoFrame ==
    UNCHANGED <<limVars, reqVars, syncVars, progVars, txnVars, routeVars, fuzzyVars, idVars,
                rangeVars, upVars, enVars, clVars, pgVars, twVars>>

\* queries.py 270-277: _answer_month(conn, month, year) with a year
AnswerMonthOfYear ==
    /\ ~mo_asked
    /\ \E month \in MoMonths, year \in MoYears :
            /\ mo_month' = month /\ mo_year' = year
            /\ mo_df' = AnswerMonthRows(mo_table, month, year)
    /\ mo_asked' = TRUE
    /\ UNCHANGED mo_table
    /\ MoFrame

\* queries.py 278-282: _answer_month(conn, month, None)
AnswerMonthAllYears ==
    /\ ~mo_asked
    /\ \E month \in MoMonths :
            /\ mo_month' = month /\ mo_year' = 0
            /\ mo_df' = AnswerMonthRows(mo_table, month, 0)
    /\ mo_asked' = TRUE
    /\ UNCHANGED mo_table
    /\ MoFrame

MoNext == AnswerMonthOfYear \/ AnswerMonthAllYears

\* ------------------------------------------------ syncs started from the UI
\* Requests of one sync whose every response is a success: get_me (through
\* get_workspace_id), projects, tags, and one export for each year.
\* sync.py 129-137: sync_current_year
QuickSyncRequests == 4
\* sync.py 39-68: sync_all(client, earliest_year)
FullSyncRequests(earliest) == 3 + (CurrentYear + 1 - earliest)
\* app.py 70: the year the number input allows
EarliestInputs == {CurrentYear - 1, CurrentYear}
\* Seconds between two requests of one sync (parsing, storing).
ClientPauses == {0, 1}
\* Seconds between the end of a sync and the next press of a button.
SyncPauses == {0, Window}

ClIdle == cl_left = 0 /\ cl_syncs = 0
ClRest == <<reqVars, syncVars, progVars, txnVars, routeVars, fuzzyVars, idVars, rangeVars, upVars,
            enVars, moVars, pgVars, twVars>>

\* toggl_client.py 93: TogglClient() makes a RateLimiter of its own
NewLimiter ==
    /\ last_request' = 0
    /\ timestamps' = <<>>

\* app.py 55-62: "Quick Sync" pressed d seconds after the previous sync ended
StartQuickSync ==
    /\ lpc = "idle" /\ cl_left = 0 /\ cl_syncs < MaxClientSyncs
    /\ NewLimiter
    /\ \E d \in SyncPauses : clock' = clock + d
    /\ cl_left' = QuickSyncRequests
    /\ cl_syncs' = cl_syncs + 1
    /\ UNCHANGED <<lpc, now, one_hour_ago, recorded, blocked>>
    /\ UNCHANGED ClRest

\* app.py 69-80: "Run Full Sync" pressed d seconds after the previous sync ended
StartFullSync ==
    /\ lpc = "idle" /\ cl_left = 0 /\ cl_syncs < MaxClientSyncs
    /\ NewLimiter
    /\ \E d \in SyncPauses : clock' = clock + d
    /\ \E earliest \in EarliestInputs : cl_left' = FullSyncRequests(earliest)
    /\ cl_syncs' = cl_syncs + 1
    /\ UNCHANGED <<lpc, now, one_hour_ago, recorded, blocked>>
    /\ UNCHANGED ClRest

\* toggl_client.py 106: the sync's next request enters wait_if_needed
ClientCall ==
    /\ cl_left > 0
    /\ \E d \in ClientPauses : WaitBegin(d)
    /\ UNCHANGED <<clVars, ClRest>>

\* toggl_client.py 76-77, 107: the request is recorded and sent
ClientRecord ==
    /\ Record
    /\ cl_left' = cl_left - 1
    /\ UNCHANGED <<cl_syncs, ClRest>>

ClientNext ==
    \/ StartQuickSync
    \/ StartFullSync
    \/ ClientCall
    \/ SleepInterval /\ UNCHANGED <<clVars, ClRest>>
    \/ Prune /\ UNCHANGED <<clVars, ClRest>>
    \/ SleepHourly /\ UNCHANGED <<clVars, ClRest>>
    \/ ClientRecord

\* ------------------------------------------------ the cold-start auto-sync
\* app.py 126, pages/0_Homepage.py 54: sync_all(client, earliest_year=2017, ...)
AutoEarliestYear == 2017

PgIdle == pg = "none" /\ pg_token = FALSE /\ pg_returns = 0
PgInputs == pg = "load" /\ pg_token \in BOOLEAN /\ pg_returns = 0
PgRest == <<limVars, reqVars, progVars, txnVars, routeVars, fuzzyVars, idVars, rangeVars, upVars,
            enVars, moVars, clVars, twVars>>

\* app.py 36, 97-115, 138 (pages/0_Homepage.py 22-41, 65): the script reads the
\* sync status, and without data either starts the auto-sync or stops
PageLoad ==
    /\ pg = "load"
    /\ GetSyncStatus
    /\ pg' = IF status'.has_data THEN "shown" ELSE IF pg_token THEN "auto" ELSE "stopped"
    /\ UNCHANGED <<pg_token, pg_returns, PgRest>>

\* app.py 116-126 (pages/0_Homepage.py 42-54): a client is made and sync_all called
AutoSyncStart ==
    /\ pg = "auto"
    /\ pg_returns < MaxAutoReturns
    /\ SyncBegin("all", AutoEarliestYear)
    /\ pg' = "syncing"
    /\ UNCHANGED <<pg_token, pg_returns, PgRest>>

\* app.py 127-132 (pages/0_Homepage.py 55-60): sync_all returned; st.rerun()
AutoSyncReturned ==
    /\ pg = "syncing" /\ spc = "idle" /\ sync_result.ended = "returned"
    /\ pg' = "load"
    /\ pg_returns' = pg_returns + 1
    /\ UNCHANGED <<pg_token, syncVars, PgRest>>

\* app.py 133-138 (pages/0_Homepage.py 61-65): sync_all raised; st.error, st.stop()
AutoSyncRaised ==
    /\ pg = "syncing" /\ spc = "idle" /\ sync_result.ended = "raised"
    /\ pg' = "stopped"
    /\ UNCHANGED <<pg_token, pg_returns, syncVars, PgRest>>

HomeNext ==
    \/ PageLoad
    \/ AutoSyncStart
    \/ SyncProjects /\ UNCHANGED <<limVars, reqVars, auxVars>>
    \/ SyncProjectsFail /\ UNCHANGED <<limVars, reqVars, auxVars>>
    \/ SyncTags /\ UNCHANGED <<limVars, reqVars, auxVars>>
    \/ SyncTagsFail /\ UNCHANGED <<limVars, reqVars, auxVars>>
    \/ AllYearFetch /\ UNCHANGED <<limVars, reqVars, auxVars>>
    \/ AllYearFetchFail /\ UNCHANGED <<limVars, reqVars, auxVars>>
    \/ AllYearStore /\ UNCHANGED <<limVars, reqVars, auxVars>>
    \/ AllFinish /\ UNCHANGED <<limVars, reqVars, auxVars>>
    \/ AutoSyncReturned
    \/ AutoSyncRaised

\* ------------------------------------------------- two syncs on one cache
Writers == {1, 2}
\* sync.py 39: the years of both calls, sync_all(client, CurrentYear - 1)
TwYears == YearRange(CurrentYear - 1, CurrentYear)
\* batches of one sync_all: projects, tags, and one per year
TwBatches == 2 + Len(TwYears)
NoCache == [time_entries |-> {}, projects |-> {}, tags |-> {}]
\* a cache left by an earlier sync: a row whose id an export row of this year shares
StaleCache ==
    [time_entries |-> {EntryRow(ParseCsv(VendorRows(CurrentYear))[2])}, projects |-> {}, tags |-> {}]
TwRemotes ==
    {[projects |-> p, tags |-> t, exports |-> <<a, b>>] :
        p \in ProjectLists, t \in TagLists,
        a \in Exports(CurrentYear - 1), b \in Exports(CurrentYear)}

\* The k-th committed batch of sync_all applied to a cache:
\* sync.py 49-50 upsert_projects, 54-55 upsert_tags, 68-86 upsert_time_entries of a year
ApplyBatch(cache, remote, k) ==
    IF k = 1 THEN [cache EXCEPT !.projects = UpsertProjects(cache.projects, remote.projects)]
    ELSE IF k = 2 THEN [cache EXCEPT !.tags = UpsertTags(cache.tags, remote.tags)]
    ELSE [cache EXCEPT !.time_entries =
            UpsertTimeEntries(cache.time_entries,
                              Enrich(ParseCsv(remote.exports[k - 2]), remote.projects))]
BatchRaises(remote, k) ==
    k > 2 /\ UpsertRaises(Enrich(ParseCsv(remote.exports[k - 2]), remote.projects))

RECURSIVE SyncAlone(_, _, _)
\* The cache after one sync_all has committed its batches k..TwBatches
SyncAlone(cache, remote, k) ==
    IF k > TwBatches \/ BatchRaises(remote, k) THEN cache
    ELSE SyncAlone(ApplyBatch(cache, remote, k), remote, k + 1)

TwIdle ==
    /\ tw_remote = [projects |-> <<>>, tags |-> <<>>, exports |-> <<>>]
    /\ tw_start = NoCache /\ tw_cache = NoCache
    /\ tw_done = [w \in Writers |-> 0] /\ tw_mixed = FALSE
TwInputs ==
    /\ tw_remote \in TwRemotes
    /\ tw_start \in {NoCache, StaleCache} /\ tw_cache = tw_start
    /\ tw_done = [w \in Writers |-> 0] /\ tw_mixed = FALSE
TwRest == <<limVars, reqVars, syncVars, progVars, txnVars, routeVars, fuzzyVars, idVars, rangeVars,
            upVars, enVars, moVars, clVars, pgVars>>
MidSync(w) == tw_done[w] > 0 /\ tw_done[w] < TwBatches

\* What a writer that commits batch k leaves: the cache, and its own count
CacheAfter(k) == IF BatchRaises(tw_remote, k) THEN tw_cache ELSE ApplyBatch(tw_cache, tw_remote, k)
DoneAfter(w, k) == [tw_done EXCEPT ![w] = IF BatchRaises(tw_remote, k) THEN -1 ELSE k]
OtherMidSync(w) == \E v \in Writers \ {w} : MidSync(v)

\* sync.py 49-50, data_store.py 145-156: a writer's upsert_projects commits
CommitProjects ==
    \E w \in Writers :
        /\ tw_done[w] = 0
        /\ tw_cache' = CacheAfter(1)
        /\ tw_done' = DoneAfter(w, 1)
        /\ tw_mixed' = (tw_mixed \/ OtherMidSync(w))
        /\ UNCHANGED <<tw_remote, tw_start, TwRest>>

\* sync.py 54-55, data_store.py 159-166: a writer's upsert_tags commits
CommitTags ==
    \E w \in Writers :
        /\ tw_done[w] = 1
        /\ tw_cache' = CacheAfter(2)
        /\ tw_done' = DoneAfter(w, 2)
        /\ tw_mixed' = (tw_mixed \/ OtherMidSync(w))
        /\ UNCHANGED <<tw_remote, tw_start, TwRest>>

\* sync.py 63-86, data_store.py 88-142: a writer's upsert_time_entries of its
\* next year commits
CommitYear ==
    \E w \in Writers :
        /\ tw_done[w] >= 2 /\ tw_done[w] < TwBatches
        /\ tw_cache' = CacheAfter(tw_done[w] + 1)
        /\ tw_done' = DoneAfter(w, tw_done[w] + 1)
        /\ tw_mixed' = (tw_mixed \/ OtherMidSync(w))
        /\ UNCHANGED <<tw_remote, tw_start, TwRest>>

TwNext == CommitProjects \/ CommitTags \/ CommitYear

LateIdle == EnIdle /\ MoIdle /\ ClIdle /\ PgIdle /\ TwIdle
ExtIdle == RangeIdle /\ UpIdle /\ LateIdle

\* ---------------------------------------------------------- specifications
RequestIdle ==
    /\ rpc = "none" /\ retries = 0 /\ attempt = 0 /\ resp = NoResponse
    /\ responses = <<>> /\ sleeps = <<>> /\ outcome = "none"

\* A caller that only calls RateLimiter.wait_if_needed.
InitLimiter == LimiterInit /\ RequestIdle /\ SyncInit /\ ProgressIdle /\ TxnIdle /\ RouteIdle /\ FuzzyIdle /\ IdIdle /\ ExtIdle
SpecLimiter == InitLimiter /\ [][LimiterNext]_vars

\* One call of TogglClient._request on a fresh client.
InitRequest == LimiterInit /\ RequestInit /\ SyncInit /\ ProgressIdle /\ TxnIdle /\ RouteIdle /\ FuzzyIdle /\ IdIdle /\ ExtIdle
SpecRequest == InitRequest /\ [][RequestNext]_vars

\* The same call on a thread that keeps running: no step of the call waits
\* for anything but time.sleep and the remote's answer, which both end.
SpecRequestFair == InitRequest /\ [][RequestNext]_vars /\ WF_vars(RequestNext)

\* The program syncing the cache and reading it, one call at a time.
InitSync == LimiterInit /\ RequestIdle /\ SyncInit /\ ProgressIdle /\ TxnIdle /\ RouteIdle /\ FuzzyIdle /\ IdIdle /\ ExtIdle
SpecSync == InitSync /\ [][SyncNext]_vars

\* One sync call after another, seen through the progress callback.
InitProgress == LimiterInit /\ RequestIdle /\ SyncInit /\ ProgressIdle /\ TxnIdle /\ RouteIdle /\ FuzzyIdle /\ IdIdle /\ ExtIdle
SpecProgress == InitProgress /\ [][ProgressNext]_vars

\* Full syncs writing their yearly batches row by row, a reader on another
\* connection, and the syncing process being killed at any point.
InitBatch == LimiterInit /\ RequestIdle /\ SyncInit /\ ProgressIdle /\ TxnIdle /\ RouteIdle /\ FuzzyIdle /\ IdIdle /\ ExtIdle
SpecBatch == InitBatch /\ [][BatchNext]_vars

\* The chat page asking one question after another.
InitRouter == LimiterInit /\ RequestIdle /\ SyncInit /\ ProgressIdle /\ TxnIdle /\ RouteIdle /\ FuzzyIdle /\ IdIdle /\ ExtIdle
SpecRouter == InitRouter /\ [][RouterNext]_vars

\* _fuzzy_match_project and _fuzzy_match_tag on every name and every list.
InitFuzzy ==
    LimiterInit /\ RequestIdle /\ SyncInit /\ ProgressIdle /\ TxnIdle /\ RouteIdle /\ FuzzyInputs /\ IdIdle /\ ExtIdle
SpecFuzzy == InitFuzzy /\ [][FuzzyNext]_vars

\* Passes of fetch_year_entries over every export of two rows.
InitIds ==
    LimiterInit /\ RequestIdle /\ SyncInit /\ ProgressIdle /\ TxnIdle /\ RouteIdle /\ FuzzyIdle /\ IdInputs /\ ExtIdle
SpecIds == InitIds /\ [][IdNext]_vars

\* Everything of the earlier sections at rest.
BaseIdle ==
    LimiterInit /\ RequestIdle /\ SyncInit /\ ProgressIdle /\ TxnIdle /\ RouteIdle /\ FuzzyIdle /\ IdIdle

\* fetch_year_csv for every year argument on every day.
InitRange == BaseIdle /\ RangeInputs /\ UpIdle /\ LateIdle
SpecRange == InitRange /\ [][RangeNext]_vars

\* Calls of upsert_time_entries with every batch of one or two entries.
InitUpsert == BaseIdle /\ RangeIdle /\ UpIdle /\ LateIdle
SpecUpsert == InitUpsert /\ [][UpNext]_vars

\* The enrichment step of both sync modes on every list of one or two entries.
InitEnrich == BaseIdle /\ RangeIdle /\ UpIdle /\ EnInputs /\ MoIdle /\ ClIdle /\ PgIdle /\ TwIdle
SpecEnrich == InitEnrich /\ [][EnNext]_vars

\* _answer_month on every cache holding some of the entries of MoEntries.
InitMonth == BaseIdle /\ RangeIdle /\ UpIdle /\ EnIdle /\ MoInputs /\ ClIdle /\ PgIdle /\ TwIdle
SpecMonth == InitMonth /\ [][MoNext]_vars

\* Syncs started from the sidebar one after the other, each on a new client.
InitClients == BaseIdle /\ ExtIdle
SpecClients == InitClients /\ [][ClientNext]_vars

\* The home page opened on an empty cache, rerun after every auto-sync.
InitHome == BaseIdle /\ RangeIdle /\ UpIdle /\ EnIdle /\ MoIdle /\ ClIdle /\ PgInputs /\ TwIdle
SpecHome == InitHome /\ [][HomeNext]_vars

\* Two sync_all calls over the same remote data, interleaved batch by batch.
InitWriters == BaseIdle /\ RangeIdle /\ UpIdle /\ EnIdle /\ MoIdle /\ ClIdle /\ PgIdle /\ TwInputs
SpecWriters == InitWriters /\ [][TwNext]_vars

\* ------------------------------------------------ claims about the cache
Returned == spc = "idle" /\ sync_result.ended = "returned"
Ids(table) == {r.id : r \in table}
ExportIds(rows) == {ParseCsv(rows)[k].id : k \in 1..Len(rows)}

\* This run fetched only years that the previous completed run fetched too,
\* and the vendor returned the same export for each of them.
SameExportsAsBefore ==
    /\ prev_exports # NoRun
    /\ DOMAIN run_exports \subseteq DOMAIN prev_exports
    /\ \A y \in DOMAIN run_exports : run_exports[y] = prev_exports[y]

\* C6: when a sync fetches again the years a previous sync fetched and the
\* remote export of each is unchanged, the time_entries table after the second
\* run has the same rows, with the same value in every column, as after the
\* first run; no row is duplicated.
C6_ResyncIsIdempotent == (Returned /\ SameExportsAsBefore) => time_entries = prev_table

\* A second run has stored again an export of several rows that the run before
\* it had stored.
C6_Witness ==
    /\ Returned /\ SameExportsAsBefore
    /\ \E y \in DOMAIN run_exports :
          Len(run_exports[y]) >= 2 /\ y \in {upsert_log[k] : k \in 1..Len(upsert_log)}
    /\ Cardinality(time_entries) >= 2

Positive(table) == {r \in table : r.duration > 0}
QueryYears == {NullInt, CurrentYear - 1, CurrentYear}
QueryDays == {<<CurrentYear, 3, 1>>, <<CurrentYear, 3, 31>>, <<CurrentYear, 4, 1>>}
QueryKeywords == {<<97>>, <<114>>, <<81>>, <<120>>}

\* C7: no read operation of the cache store returns or counts data that an
\* entry of duration <= 0 contributed: every read gives the same result on the
\* cache as on the cache without these entries, whatever filter is passed.
C7_ReadsSkipNonPositive ==
    LET t == time_entries
        p == Positive(time_entries)
    IN  /\ \A y \in QueryYears, a \in QueryDays, b \in QueryDays :
              GetEntriesDf(t, y, DateText(a[1], a[2], a[3]), DateText(b[1], b[2], b[3]))
                = GetEntriesDf(p, y, DateText(a[1], a[2], a[3]), DateText(b[1], b[2], b[3]))
        /\ \A y \in QueryYears : GetEntriesDf(t, y, NullText, NullText) = GetEntriesDf(p, y, NullText, NullText)
        /\ GetAvailableYears(t) = GetAvailableYears(p)
        /\ \A a \in QueryDays : GetEntriesForDateAcrossYears(t, a[2], a[3])
                                  = GetEntriesForDateAcrossYears(p, a[2], a[3])
        /\ \A a \in QueryDays : GetEntriesForWeekAcrossYears(t, IsoWeek(a[1], a[2], a[3]))
                                  = GetEntriesForWeekAcrossYears(p, IsoWeek(a[1], a[2], a[3]))
        /\ GetTotalStats(t) = GetTotalStats(p)
        /\ \A k \in QueryKeywords : SearchEntries(t, k, DefaultSearchLimit) = SearchEntries(p, k, DefaultSearchLimit)
        /\ \A k \in QueryKeywords, y \in QueryYears : GetEntriesByTag(t, k, y) = GetEntriesByTag(p, k, y)
        /\ GetAllProjectNames(t) = GetAllProjectNames(p)

\* The six reads that do carry the condition duration > 0.
C7_FilteredReadsSkipNonPositive ==
    LET t == time_entries
        p == Positive(time_entries)
    IN  /\ \A y \in QueryYears, a \in QueryDays, b \in QueryDays :
              GetEntriesDf(t, y, DateText(a[1], a[2], a[3]), DateText(b[1], b[2], b[3]))
                = GetEntriesDf(p, y, DateText(a[1], a[2], a[3]), DateText(b[1], b[2], b[3]))
        /\ \A a \in QueryDays : GetEntriesForDateAcrossYears(t, a[2], a[3])
                                  = GetEntriesForDateAcrossYears(p, a[2], a[3])
        /\ \A a \in QueryDays : GetEntriesForWeekAcrossYears(t, IsoWeek(a[1], a[2], a[3]))
                                  = GetEntriesForWeekAcrossYears(p, IsoWeek(a[1], a[2], a[3]))
        /\ GetTotalStats(t) = GetTotalStats(p)
        /\ \A k \in QueryKeywords : SearchEntries(t, k, DefaultSearchLimit) = SearchEntries(p, k, DefaultSearchLimit)
        /\ \A k \in QueryKeywords, y \in QueryYears : GetEntriesByTag(t, k, y) = GetEntriesByTag(p, k, y)

\* The calendar day of an entry, read off its start timestamp YYYY-MM-DD... as
\* three numbers.
DigitAt(s, k) == s[k] - 48
StartDay(r) ==
    <<DigitAt(r.start, 1) * 1000 + DigitAt(r.start, 2) * 100 + DigitAt(r.start, 3) * 10 + DigitAt(r.start, 4),
      DigitAt(r.start, 6) * 10 + DigitAt(r.start, 7),
      DigitAt(r.start, 9) * 10 + DigitAt(r.start, 10)>>
\* Day x is not after day y in the calendar.
DayLeq(x, y) ==
    \/ x[1] < y[1]
    \/ x[1] = y[1] /\ (x[2] < y[2] \/ (x[2] = y[2] /\ x[3] <= y[3]))
\* The ranges asked for: the two bounds as the texts passed to the query and
\* as calendar days.
QueryRanges ==
    {[start_date |-> DateText(a[1], a[2], a[3]), end_date |-> DateText(b[1], b[2], b[3]),
      first |-> a, last |-> b] : a \in QueryDays, b \in QueryDays}

\* C8: get_entries_df(start_date=a, end_date=b) returns exactly the entries of
\* positive duration whose calendar start day d satisfies a <= d <= b, both
\* bounds included and whatever the time of day; the day after b is excluded.
C8_DateRangeInclusive ==
    \A q \in QueryRanges :
        GetEntriesDf(time_entries, NullInt, q.start_date, q.end_date)
          = {r \in time_entries :
                r.duration > 0 /\ DayLeq(q.first, StartDay(r)) /\ DayLeq(StartDay(r), q.last)}

\* The cache holds an entry at 00:00:00 on day a, one at 23:59:59 on day b, one
\* on the day after b and one of duration 0 inside the range; the range query
\* returns the first two only.
C8_Witness ==
    LET a == DateText(CurrentYear, 3, 1)
        b == DateText(CurrentYear, 3, 31)
        res == GetEntriesDf(time_entries, NullInt, a, b)
    IN  /\ \E r \in res : r.start = a \o <<84>> \o TimeText(0, 0, 0)
        /\ \E r \in res : r.start = b \o <<84>> \o TimeText(23, 59, 59)
        /\ \E r \in time_entries \ res : r.start_date = DateText(CurrentYear, 4, 1) /\ r.duration > 0
        /\ \E r \in time_entries \ res : r.start_date = DateText(CurrentYear, 3, 15) /\ r.duration <= 0

\* C9: whatever sync steps, status queries and chat queries are taken, the set
\* of entry identifiers in the cache never shrinks.
C9_IdsNeverShrink == [][Ids(time_entries) \subseteq Ids(time_entries')]_vars

\* A sync has stored a year's export that no longer holds an entry the cache
\* has for that year.
C9_Witness ==
    /\ Returned
    /\ \E y \in DOMAIN run_exports :
          /\ \E k \in 1..Len(upsert_log) : upsert_log[k] = y
          /\ \E r \in time_entries : r.start_year = y /\ r.id \notin ExportIds(run_exports[y])

FetchedYears == [k \in 1..Len(fetch_log) |-> fetch_log[k][1]]
FetchSucceeded(f) == f[2]
FetchFailed(f) == ~f[2]
YearsOf(log) == [k \in 1..Len(log) |-> log[k][1]]

\* C10: sync_all, whichever of the years' fetches fail, fetches every year of
\* the range exactly once, upserts every year whose fetch succeeded, returns an
\* errors list with exactly one record per failed year, and returns normally:
\* it raises only before the first year is fetched (the project or tag list).
C10_YearFailuresAreIsolated ==
    /\ (Returned /\ sync_result.mode = "all") =>
          /\ FetchedYears = years
          /\ upsert_log = YearsOf(SelectSeq(fetch_log, FetchSucceeded))
          /\ sync_result.errors = YearsOf(SelectSeq(fetch_log, FetchFailed))
          /\ sync_result.years_synced = Len(years)
    /\ (sync_result.ended = "raised" /\ sync_result.mode = "all") => fetch_log = <<>>

\* A full sync over two years has returned after the first year's fetch failed
\* and the second year's succeeded.
C10_Witness ==
    /\ Returned /\ sync_result.mode = "all"
    /\ Len(years) = 2
    /\ Len(fetch_log) = 2 /\ ~fetch_log[1][2] /\ fetch_log[2][2]
    /\ upsert_log = <<years[2]>>
    /\ Len(sync_result.errors) = 1

\* --------------------------------------- claims about progress reports
Ended == spc = "idle" /\ sync_result.ended \in {"returned", "raised"}

\* C11: in every run of sync_all, for every range of years and every pattern
\* of failing years, and of sync_current_year, the fractions passed to the
\* progress callback never decrease and each lies in [0, 1].
C11_ProgressMonotone ==
    \A k \in 1..Len(progress) :
        /\ FracLeq(Hundredths(0), progress[k])
        /\ FracLeq(progress[k], Hundredths(100))
        /\ k > 1 => FracLeq(progress[k - 1], progress[k])

\* The same, for ranges of at most 22 years.
C11_ProgressMonotoneShortRange ==
    Len(years) <= 22 => C11_ProgressMonotone

\* C12: in every run of sync_all and of sync_current_year, returned or ended
\* by an exception, the last fraction passed to the progress callback is 1.0.
C12_LastReportIsOne ==
    Ended => /\ progress # <<>>
             /\ FracLeq(Hundredths(100), progress[Len(progress)])
             /\ FracLeq(progress[Len(progress)], Hundredths(100))

\* The same, for the runs that return.
C12_LastReportIsOneOnReturn ==
    Returned => /\ progress # <<>>
                /\ progress[Len(progress)] = Hundredths(100)

\* ------------------------------------------ claims about yearly batches
NoneOrAll(table, base, batch) == table \in {base, UpsertTimeEntries(base, batch)}

\* C13: at every point of a sync, also after it was interrupted there, the
\* time_entries table that a reader on another connection gets holds, of the
\* latest year's batch, either no row or all rows; it never holds part of it.
\* Batches of different years become visible one after the other.
C13_BatchesAtomic ==
    /\ NoneOrAll(Visible(time_entries, txn), batch_base, batch_entries)
    /\ seen # NoResult => NoneOrAll(seen.table, seen.base, seen.batch)

\* In the second pass a reader has read while the current year's batch of two
\* rows or more was half written: it got the earlier year's rows of this pass
\* and none of the current year's.
C13_Witness ==
    /\ runs = 2 /\ spc = "executing" /\ upsert_log = <<CurrentYear - 1>>
    /\ todo # <<>> /\ Len(todo) < Len(batch_entries)
    /\ txn.table # time_entries
    /\ seen # NoResult /\ seen.table = batch_base /\ seen.batch = batch_entries
    /\ seen.table # UpsertTimeEntries(batch_base, batch_entries)

\* ------------------------------------------------- claims about the router
Asked == route # NoRoute

\* The matchers that answer_question tries before the year comparison.
EarlierThanCompare(q) ==
    \/ TopProjectsMatches(q) \/ TopTagsMatches(q) \/ TagMatches(q)
    \/ DateMatches(q) \/ ThisWeekMatches(q) \/ WeekNumberMatches(q)

\* C14: every question that matches the year-comparison pattern is answered
\* by the year-comparison handler, whatever other patterns it also matches.
C14_CompareAlwaysWins ==
    (Asked /\ CompareMatches(question)) => route.handler = "compare"

\* The comparison wins over the matchers that come after it in the chain
\* (totals, month, bare year, project, keyword search), and only over those.
C14_CompareWinsOverLaterMatchers ==
    (Asked /\ CompareMatches(question) /\ ~EarlierThanCompare(question))
        => route.handler = "compare"

\* No matcher of answer_question matches the question.
Unmatched(q, projs, tgs) ==
    /\ ~EarlierThanCompare(q) /\ ~CompareMatches(q) /\ ~TotalMatches(q)
    /\ ~MonthMatches(q) /\ ~YearMatches(q) /\ ~ProjectMatches(q)
    /\ ~BareProjectMatches(q, projs) /\ ~SearchMatches(q)

\* C15: a question that no matcher matches gets the help message and raises
\* no error, for every content of the cache: no, one or more known names.
C15_UnmatchedGetsHelp ==
    (Asked /\ Unmatched(question, known_projects, known_tags)) => route.handler = "help"

\* With no known project name, or with two or more, the help message is returned.
C15_UnmatchedGetsHelpUnlessOneProject ==
    (Asked /\ Unmatched(question, known_projects, known_tags) /\ Len(known_projects) # 1)
        => route.handler = "help"

\* ------------------------------------------- claims about fuzzy matching
\* The positions of the known names that contain the query, without case.
Containing(name, known) == {k \in 1..Len(known) : Contains(Lower(known[k]), Lower(name))}

\* C16: a query that is a case-insensitive substring of exactly one known
\* project name is resolved to that project.
C16_UniqueSubstringResolves ==
    (fuzzy_fn = "project" /\ Cardinality(Containing(fuzzy_name, fuzzy_known)) = 1)
        => \A k \in Containing(fuzzy_name, fuzzy_known) : fuzzy_result = fuzzy_known[k]

\* It is, when no known name listed before that project is itself contained
\* in the query.
C16_ResolvesUnlessShorterNameFirst ==
    (fuzzy_fn = "project" /\ Cardinality(Containing(fuzzy_name, fuzzy_known)) = 1)
        => \A k \in Containing(fuzzy_name, fuzzy_known) :
              \/ fuzzy_result = fuzzy_known[k]
              \/ \E j \in 1..(k - 1) : Contains(Lower(fuzzy_name), Lower(fuzzy_known[j]))

\* ------------------------------------------ claims about the surrogate id
\* The five fields of the entry parsed from an export row.
FiveFields(row) ==
    LET e == ParseRow(row)
    IN  <<e.start, e.stop, e.description, e.project_name, e.duration>>

\* C17: the id is a function of the five fields only: rows equal in all five
\* get the same id on every pass, rows that differ in any get different ids.
C17_IdDeterminedByFiveFields ==
    \A p \in 1..Len(passes), r \in 1..Len(passes) :
        /\ FiveFields(csv_rows[1]) = FiveFields(csv_rows[2]) => passes[p][1] = passes[r][2]
        /\ FiveFields(csv_rows[1]) # FiveFields(csv_rows[2]) => passes[p][1] # passes[r][2]

\* Equal fields give equal ids, on every pass.
C17_EqualFieldsEqualIds ==
    \A p \in 1..Len(passes), r \in 1..Len(passes) :
        /\ passes[p] = passes[r]
        /\ FiveFields(csv_rows[1]) = FiveFields(csv_rows[2]) => passes[p][1] = passes[r][2]

\* The seed text of the row, as line 370 builds it.
SeedOf(row) ==
    LET e == ParseRow(row)
    IN  IdSeed(e.start, e.stop, e.description, e.project_name, e.duration)

\* Rows with different seed texts get different ids: the rows that share an
\* id while differing in a field are rows whose seed texts are the same.
C17_DistinctSeedsDistinctIds ==
    \A p \in 1..Len(passes) :
        SeedOf(csv_rows[1]) # SeedOf(csv_rows[2]) => passes[p][1] # passes[p][2]

\* --------------------------------------------- claims about the watermarks
\* A run's timestamp is written by that run only (the model writes `runs`, a
\* value no earlier run has written), so a key that holds `runs` was written
\* by the latest run.
FetchedOk(year) == \E k \in 1..Len(fetch_log) : fetch_log[k] = <<year, TRUE>>
Stored(year) == \E k \in 1..Len(upsert_log) : upsert_log[k] = year
FullMarkWritten == mode = "all" /\ sync_meta.last_full_sync = runs

\* C18: whenever sync_all writes last_full_sync, every year from
\* earliest_year through the current year was fetched and stored without
\* error in that run.
C18_FullMarkMeansAllYearsStored ==
    FullMarkWritten => \A y \in earliest_year..CurrentYear : FetchedOk(y) /\ Stored(y)

\* What does hold when last_full_sync is written: every year of the range
\* was tried, and each was either stored or recorded in `errors`.
C18_FullMarkMeansAllYearsTried ==
    FullMarkWritten =>
        \A y \in earliest_year..CurrentYear :
            \/ FetchedOk(y) /\ Stored(y)
            \/ \E k \in 1..Len(sync_result.errors) : sync_result.errors[k] = y

\* C19: sync_current_year fetches the current year only; it writes
\* last_incremental_sync and last_sync_<current year>, with one timestamp,
\* exactly when the fetch and the upsert of that year succeeded; when the
\* run raises, neither key is changed.
C19_CurrentYearMarks ==
    mode = "current" =>
        /\ \A k \in 1..Len(fetch_log) : fetch_log[k][1] = CurrentYear
        /\ sync_meta.last_incremental_sync = runs
              <=> (sync_meta.last_sync = runs /\ sync_meta.last_sync_year = CurrentYear)
        /\ sync_meta.last_incremental_sync = runs
              <=> (sync_result.ended = "returned" /\ FetchedOk(CurrentYear) /\ Stored(CurrentYear))
        /\ sync_result.ended = "raised"
              => sync_meta.last_incremental_sync # runs /\ sync_meta.last_sync # runs
        /\ (spc = "idle" /\ FetchedOk(CurrentYear) /\ Stored(CurrentYear))
              => sync_meta.last_incremental_sync = runs

\* A second incremental sync wrote both keys after an earlier one had, and a
\* run whose fetch raised left the earlier values in place.
C19_Witness ==
    /\ mode = "current" /\ spc = "idle" /\ runs = 2
    /\ sync_result.ended = "returned"
    /\ sync_meta.last_incremental_sync = 2 /\ sync_meta.last_sync = 2

C19_WitnessFetchRaised ==
    /\ mode = "current" /\ sync_result.ended = "raised" /\ runs = 2
    /\ fetch_log = <<<<CurrentYear, FALSE>>>>
    /\ sync_meta.last_incremental_sync = 1 /\ sync_meta.last_sync = 1

\* ------------------------------------------------ claims about the reads
\* What a request to the vendor leaves behind in a run: the lists and the
\* exports it returned, and the record of every year's fetch.
VendorTrace == <<project_list, tag_list, fetch_log, run_exports>>

\* C20: answer_question and get_sync_status issue no request to the vendor
\* and leave time_entries, projects, tags and sync_meta as they were.
C20_ReadsChangeNothing ==
    [][(GetSyncStatus \/ AnswerQuestion)
          => /\ time_entries' = time_entries /\ projects' = projects
             /\ tags' = tags /\ sync_meta' = sync_meta
             /\ VendorTrace' = VendorTrace]_vars

\* Both reads have run on a cache that holds entries, projects, tags and
\* watermarks.
C20_Witness ==
    /\ status # NoResult /\ chat # NoResult
    /\ status.has_data /\ chat.known_projects # {}
    /\ projects # {} /\ tags # {} /\ sync_meta # NoMeta

\* ---------------------------------------- claims about the export range
Posted == fy_body # NoRange
Jan1(year) == DateText(year, 1, 1)
Dec31(year) == DateText(year, 12, 31)

C21_ExportRangeUpToCurrentYear ==
    (Posted /\ fy_year <= fy_today[1]) =>
        /\ fy_body.start_date = Jan1(fy_year)
        /\ fy_year < fy_today[1] => fy_body.end_date = Dec31(fy_year)
        /\ fy_year = fy_today[1] => fy_body.end_date = DateText(fy_today[1], fy_today[2], fy_today[3])
        /\ TextLeq(fy_body.start_date, fy_body.end_date)

\* ------------------------------------------ claims about keyword search
\* C22: a question that matches the keyword-search pattern and also holds a
\* bare 20xx year, or is a known project name, is answered by the
\* keyword-search handler and not by the bare-year or bare-project handler.
C22_SearchBeforeYearAndProject ==
    (Asked /\ SearchMatches(question)
           /\ (YearMatches(question) \/ BareProjectMatches(question, known_projects)))
        => route.handler \notin {"year", "project"}

\* In the code keyword search is the last matcher: it answers only questions
\* that hold no year and that no other matcher matches.
C22_SearchIsLastMatcher ==
    (Asked /\ route.handler = "search")
        => /\ SearchMatches(question) /\ ~YearMatches(question)
           /\ ~BareProjectMatches(question, known_projects)
           /\ ~EarlierThanCompare(question) /\ ~CompareMatches(question)
           /\ ~TotalMatches(question) /\ ~MonthMatches(question) /\ ~ProjectMatches(question)

\* ------------------------------------------ claims about the sync order
EventsOf(what) == {k \in 1..Len(events) : events[k][1] = what}
YearEvents == EventsOf("fetch") \cup EventsOf("upsert")
\* The years of the fetch events, in the order of the events.
FetchOrder ==
    LET fetches == SelectSeq(events, LAMBDA e : e[1] = "fetch")
    IN  [k \in 1..Len(fetches) |-> fetches[k][2]]
YearsInRange == IF CurrentYear >= earliest_year THEN CurrentYear + 1 - earliest_year ELSE 0

\* C23: sync_all fetches and stores projects and tags exactly once and before
\* any year is fetched; it then takes the years earliest_year..current year in
\* ascending order, each exactly once, and upserts a year before the next
\* year's fetch starts.
C23_SyncAllOrder ==
    mode = "all" =>
        /\ Cardinality(EventsOf("projects")) <= 1 /\ Cardinality(EventsOf("tags")) <= 1
        /\ \A k \in YearEvents :
              \E i \in EventsOf("projects"), j \in EventsOf("tags") : i < j /\ j < k
        /\ \A k \in 1..Len(FetchOrder) : FetchOrder[k] = earliest_year + k - 1
        /\ Len(FetchOrder) <= YearsInRange
        /\ Returned => Len(FetchOrder) = YearsInRange
        /\ \A k \in EventsOf("upsert") : k > 1 /\ events[k - 1] = <<"fetch", events[k][2]>>
        /\ \A k \in EventsOf("fetch") :
              (k < Len(events) /\ FetchedOk(events[k][2]))
                  => events[k + 1] = <<"upsert", events[k][2]>>

\* A full sync over two years has returned with both years fetched and stored.
C23_Witness ==
    /\ Returned /\ mode = "all"
    /\ events = <<<<"projects", 0>>, <<"tags", 0>>,
                  <<"fetch", CurrentYear - 1>>, <<"upsert", CurrentYear - 1>>,
                  <<"fetch", CurrentYear>>, <<"upsert", CurrentYear>>>>

\* ------------------------------------- claims about the end of _request
\* The remote's answer makes raise_for_status raise, or is one of the two
\* statuses the loop handles itself.
Unsuccessful(r) == RaisesForStatus(r.status)

RequestBounded ==
    /\ Len(responses) <= retries
    \* every attempt has had its own wait_if_needed, and no call of it is spare
    /\ Len(recorded) >= Len(responses) /\ Len(recorded) <= Len(responses) + 1
    /\ rpc \in {"dispatch", "loop"} => Len(recorded) = Len(responses)
    /\ rpc = "done" =>
          /\ outcome \in {"returned", "HTTPError", "RuntimeError", "ConnectionError"}
          /\ outcome # "ConnectionError" => Len(recorded) = Len(responses)
          /\ outcome = "returned" =>
                /\ Len(responses) >= 1
                /\ ~Unsuccessful(responses[Len(responses)])
                /\ \A i \in 1..(Len(responses) - 1) : responses[i].status \in {429, 402}

\* C24: for every sequence of answers of the remote, a call of _request ends
\* after at most `retries` HTTP attempts, each attempt preceded by exactly one
\* wait_if_needed, and it ends by returning the first successful response or
\* by raising.
C24_RequestTerminates == []RequestBounded /\ <>(rpc = "done")

\* A call with retries = 3 was answered 429, then 402, then 200, and returned.
C24_Witness ==
    /\ rpc = "done" /\ outcome = "returned" /\ retries = 3
    /\ Len(responses) = 3 /\ Len(recorded) = 3
    /\ responses[1].status = 429 /\ responses[2].status = 402 /\ responses[3].status = 200

\* ----------------------------------------------- claims about replacing
\* The last call returned (an entry whose start is no date makes it raise).
Upserted == up_calls > 0 /\ ~UpsertRaises(up_entries)
\* The last entry of the batch with the id of entry k.
LastWithId(es, id) ==
    es[CHOOSE k \in 1..Len(es) : es[k].id = id /\ \A j \in (k + 1)..Len(es) : es[j].id # id]
BatchIds(es) == {es[k].id : k \in 1..Len(es)}

\* C25: after upsert_time_entries has written an entry whose id is already in
\* the cache, every column of that row, the derived date columns and
\* duration_hours included, holds the value computed from the new entry, no
\* column keeps a value of the old row, and every other row is unchanged.
C25_ReplaceInFull ==
    Upserted =>
        /\ \A id \in BatchIds(up_entries) :
              {r \in up_after : r.id = id} = {EntryRow(LastWithId(up_entries, id))}
        /\ {r \in up_after : r.id \notin BatchIds(up_entries)}
              = {r \in up_before : r.id \notin BatchIds(up_entries)}

\* The row of entry 1 was replaced by one with another start, another
\* duration and other tags, and the row of entry 2 is as it was.
C25_Witness ==
    /\ Upserted /\ up_calls = 2 /\ BatchIds(up_entries) = {1}
    /\ \E old \in up_before, new \in up_after, other \in up_after :
          /\ old.id = 1 /\ new.id = 1 /\ other.id = 2 /\ other \in up_before
          /\ old.start_date # new.start_date /\ old.start_week # new.start_week
          /\ old.duration_hours # new.duration_hours /\ old.tags # new.tags

\* ------------------------------------------- claims about the enrichment
Enriched == en_mode # "none"
StoredAs(e) == CHOOSE r \in en_stored : r.id = e.id
NamesGiven(ref) == {en_projects[k].name : k \in {j \in 1..Len(en_projects) : en_projects[j].id = ref}}
LacksName(e) == e.project_name = <<>> /\ e.project_id # NullInt

\* C26: in both sync modes an entry with an empty project name and a project
\* reference is stored with the name the project list of the run gives for the
\* reference, and an entry that carries a project name is stored with that name.
C26_EnrichedBeforeStorage ==
    Enriched =>
        \A k \in 1..Len(en_entries) :
            LET e == en_entries[k] IN
            /\ (LacksName(e) /\ NamesGiven(e.project_id) # {})
                    => StoredAs(e).project_name \in NamesGiven(e.project_id)
            /\ e.project_name # <<>> => StoredAs(e).project_name = e.project_name
C26_Witness ==
    /\ en_mode = "current"
    /\ \E k \in 1..Len(en_entries) :
            /\ LacksName(en_entries[k])
            /\ NamesGiven(en_entries[k].project_id) = {<<82>>}
            /\ StoredAs(en_entries[k]).project_name = <<82>>
    /\ \E k \in 1..Len(en_entries) : en_entries[k].project_name = <<80>>
\* ------------------------------------------ claims about the month summary
\* C27: the summary of month m of year y is computed from exactly the entries of
\* positive duration whose start date lies in that month of that year.
C27_MonthOfYearExact ==
    (mo_asked /\ mo_year # 0) =>
        mo_df = {r \in mo_table :
                    r.duration > 0 /\ r.start_year = mo_year /\ r.start_month = mo_month}
\* ------------------------------------------- claims about syncs from the UI
\* C28: over any sequence of syncs started from the UI in one process, no rolling
\* hour holds more than max_per_hour outbound requests.
C28_ProcessQuota ==
    \A i \in 1..Len(recorded) : Cardinality(InWindowOf(i)) <= MaxPerHour
\* ------------------------------------------- claims about the auto-sync
\* C29: once an auto-sync has returned normally, the rerun of the page starts no
\* further auto-sync, whatever the sync stored.
C29_NoAutoSyncAfterReturn == pg_returns > 0 => pg \notin {"auto", "syncing"}
\* ------------------------------------------- claims about two writers
BothDone == \A w \in Writers : tw_done[w] = TwBatches
UniqueIds(table) == \A r, q \in table : r.id = q.id => r = q

\* C30: two syncs over the same remote data, interleaved batch by batch, leave
\* time_entries, projects and tags as one sync alone leaves them; at no point is
\* a row stored twice, and no row of the single sync is missing at the end.
C30_InterleavedEqualsAlone ==
    /\ UniqueIds(tw_cache.time_entries) /\ UniqueIds(tw_cache.projects) /\ UniqueIds(tw_cache.tags)
    /\ BothDone => tw_cache = SyncAlone(tw_start, tw_remote, 1)
C30_Witness ==
    /\ BothDone /\ tw_mixed
    /\ tw_start = StaleCache
    /\ Cardinality(tw_cache.time_entries) > 1
    /\ tw_cache.projects # {}
====
